---- MODULE Spec2Model ----
(***************************************************************************)
(* A model of ppt-auto-generator: the outline parser                       *)
(* (parse_outline_to_json), the slide renderer (AutoPPTGeneratorV3) and    *)
(* the bullet text flow (add_structured_bullets).                          *)
(*                                                                         *)
(* Text is a sequence of characters.  An ASCII character is the one-letter *)
(* string; any other character is named by its code point ("U+5C01").      *)
(***************************************************************************)
EXTENDS Integers, Sequences, FiniteSets, TLC

VARIABLES
    pc,             \* which program runs and where it is
    nread,          \* parser: lines of the outline consumed so far
    slides,         \* parser: the slides list
    current_slide,  \* parser: the slide in progress (NoSlide for None)
    cover_title,    \* parser
    cover_subtitle, \* parser
    layout_index,   \* parser: the rotation counter
    result,         \* parser: the returned document (NoResult before return)
    demo_prefix,    \* observer: how many lines of DemoOutline were read, -1 once off it
    nseen,          \* renderer: entries of slides_data consumed so far
    slide_index,    \* renderer: self.slide_index
    nslides,        \* renderer: len(self.prs.slides)
    recognized,     \* renderer: entries consumed whose type is one of the five
    last,           \* renderer: the slide drawn last, as handed to the drawing library
    assigned,       \* renderer: the layouts given to content slides that named none
    words,          \* text flow: the rest of the bullet still to be segmented
    bullet,         \* text flow: the bullet given to add_structured_bullets
    runs,           \* text flow: the texts of the runs produced, in order
    max_retries,    \* image generation: the max_retries argument
    attempt,        \* image generation: the loop variable of the retry loop
    response,       \* image generation: how the request in flight came out
    posts,          \* image generation: generation requests sent so far
    slept,          \* image generation: the seconds of every time.sleep, in order
    retval,         \* image generation: the (success, message) pair returned
    image_tasks,    \* main, download: the list of image tasks
    siliconflow_key, \* download: whether an AI key was given
    unsplash_key,   \* download: whether an Unsplash key was given
    ntask,          \* download: tasks of image_tasks processed so far
    stats,          \* download: the stats dict
    success_paths,  \* download: the value returned
    text_content,   \* main: the text entered
    json_data,      \* main: the document in use
    parser_calls    \* main: how many times parse_outline_to_json was invoked

vars == <<pc, nread, slides, current_slide, cover_title, cover_subtitle,
          layout_index, result, demo_prefix, nseen, slide_index, nslides, recognized,
          last, assigned, words, bullet, runs, max_retries, attempt, response, posts,
          slept, retval, image_tasks, siliconflow_key, unsplash_key, ntask, stats,
          success_paths, text_content, json_data, parser_calls>>

parserVars == <<nread, slides, current_slide, cover_title, cover_subtitle,
                result, demo_prefix>>
renderVars == <<nseen, slide_index, nslides, recognized, last, assigned>>
flowVars == <<words, bullet, runs>>
retryVars == <<max_retries, attempt, response, posts, slept, retval>>
downloadVars == <<image_tasks, siliconflow_key, unsplash_key, ntask, stats, success_paths>>
mainVars == <<text_content, json_data, parser_calls>>
ioVars == <<retryVars, downloadVars, mainVars>>

-----------------------------------------------------------------------------
(* Bounds of the model. *)

\* the longest outline read, in lines
MaxLines == 5

\* the longest slides_data rendered with every quote, image and layout variation
MaxSlides == 3

\* the longest slides_data rendered when only the layouts vary
MaxDeck == 8

\* the longest quote given to the renderer
MaxQuoteLen == 63

\* the longest bullet given to add_structured_bullets
MaxBulletLen == 76

-----------------------------------------------------------------------------
(* Python string operations, on sequences of characters. *)

\* the characters str.strip() and the regex class \s remove, of those the outlines use
WS == {" ", "\t"}

RECURSIVE lstrip(_)
lstrip(s) ==
    IF s # <<>> /\ Head(s) \in WS THEN lstrip(Tail(s)) ELSE s

RECURSIVE rstrip(_)
rstrip(s) ==
    IF s # <<>> /\ s[Len(s)] \in WS THEN rstrip(SubSeq(s, 1, Len(s) - 1)) ELSE s

strip(s) == rstrip(lstrip(s))

startswith(s, p) ==
    Len(s) >= Len(p) /\ SubSeq(s, 1, Len(p)) = p

endswith(s, p) ==
    Len(s) >= Len(p) /\ SubSeq(s, Len(s) - Len(p) + 1, Len(s)) = p

\* `sub in s`
contains(s, sub) ==
    \E i \in 1..(Len(s) - Len(sub) + 1) : SubSeq(s, i, i + Len(sub) - 1) = sub

\* s.find(sub) + 1: the 1-based position of the first occurrence, 0 when there is none
find(s, sub) ==
    IF contains(s, sub)
    THEN CHOOSE i \in 1..(Len(s) - Len(sub) + 1) :
            /\ SubSeq(s, i, i + Len(sub) - 1) = sub
            /\ \A j \in 1..(i - 1) : SubSeq(s, j, j + Len(sub) - 1) # sub
    ELSE 0

\* s.replace(old, ''), left to right, occurrences not overlapping
RECURSIVE remove(_, _)
remove(s, old) ==
    IF s = <<>> THEN <<>>
    ELSE IF startswith(s, old) THEN remove(SubSeq(s, Len(old) + 1, Len(s)), old)
    ELSE <<Head(s)>> \o remove(Tail(s), old)

\* re.sub(r'\[.*?\]', '', s): each '[' up to the nearest following ']' is removed
RECURSIVE remove_brackets(_)
remove_brackets(s) ==
    IF s = <<>> THEN <<>>
    ELSE IF Head(s) = "[" /\ contains(Tail(s), <<"]">>)
         THEN remove_brackets(SubSeq(s, find(Tail(s), <<"]">>) + 2, Len(s)))
    ELSE <<Head(s)>> \o remove_brackets(Tail(s))

\* s.split(sep, 1)[1] for a one-character sep that occurs in s
after_first(s, sep) ==
    SubSeq(s, find(s, sep) + Len(sep), Len(s))

\* s.lstrip('#')
RECURSIVE lstrip_hash(_)
lstrip_hash(s) ==
    IF s # <<>> /\ Head(s) = "#" THEN lstrip_hash(Tail(s)) ELSE s

-----------------------------------------------------------------------------
(* The literals of parse_outline_to_json. *)

FullColon == "U+FF1A"
KwCover == <<"U+5C01", "U+9762">>
KwEpilogue == <<"U+7ED3", "U+8BED">>
KwTail == <<"U+7ED3", "U+5C3E">>
KwSummary == <<"U+603B", "U+7ED3">>
KwOutline == <<"U+5927", "U+7EB2">>
KwTitle == <<"U+6807", "U+9898">>
KwSubtitle == <<"U+526F", "U+6807", "U+9898">>
DefaultCoverTitle == <<"U+6F14", "U+793A", "U+6587", "U+7A3F">>
DefaultSubtitle == <<"U+4E13", "U+4E1A", "U+57F9", "U+8BAD", "U+8BFE", "U+7A0B">>
DefaultEndingTitle == <<"U+8C22", "U+8C22", "U+89C2", "U+770B">>
DefaultEndingBullet == <<"U+6B22", "U+8FCE", "U+4EA4", "U+6D41", "U+8BA8", "U+8BBA">>
DefaultEndingQuote ==
    <<"U+5408", "U+89C4", "U+8FD0", "U+4F5C", "U+FF0C", "U+4EF7", "U+503C", "U+521B", "U+9020">>
ImageDescSuffix == <<"U+793A", "U+610F", "U+56FE">>

\* the parser's own two-entry rotation list
layouts == <<"left_text_right_image", "right_text_left_image">>

\* a field the dict does not have
Absent == <<"<absent>">>
AbsentList == << <<"<absent>">> >>
NoLayout == "<absent>"

-----------------------------------------------------------------------------
(* The helpers nested in parse_outline_to_json. *)

clean_text(s) ==
    strip(remove(remove_brackets(remove(remove(s, <<"*", "*">>), <<"*">>)), <<"\"">>))

\* re.match(r'第.+[页节][\s：:]+(.+)', line): group 1, or Absent when there is no match.
\* '.+' is greedy, so the last page/section mark that lets the rest match is taken; the
\* separator run is greedy too and gives back one character when it reaches the end.
PageMarks == {"U+9875", "U+8282"}
PageSeps == WS \cup {FullColon, ":"}

RECURSIVE sep_run(_, _)
sep_run(s, i) ==
    IF i <= Len(s) /\ s[i] \in PageSeps THEN 1 + sep_run(s, i + 1) ELSE 0

page_match_at(s, p) ==
    /\ s[p] \in PageMarks
    /\ sep_run(s, p + 1) >= 1
    /\ (p + sep_run(s, p + 1) < Len(s) \/ sep_run(s, p + 1) >= 2)

page_title(s) ==
    IF s # <<>> /\ Head(s) = "U+7B2C" /\ \E p \in 3..Len(s) : page_match_at(s, p)
    THEN LET p == CHOOSE q \in 3..Len(s) :
                    /\ page_match_at(s, q)
                    /\ \A r \in (q + 1)..Len(s) : ~page_match_at(s, r)
             n == sep_run(s, p + 1)
         IN  IF p + n < Len(s) THEN SubSeq(s, p + n + 1, Len(s))
             ELSE SubSeq(s, Len(s), Len(s))
    ELSE Absent

\* returns Absent for Python's None
extract_title_from_section(line0) ==
    LET line == strip(lstrip_hash(line0))
    IN  IF page_title(line) # Absent THEN clean_text(page_title(line))
        ELSE IF contains(line, KwCover) \/ contains(line, KwEpilogue) \/ contains(line, KwTail)
             THEN Absent
        ELSE clean_text(line)

\* re.match(r'^[\s]*[-*]\s+', original_line)
is_bullet_line(original_line) ==
    LET s == lstrip(original_line)
    IN  /\ Len(s) >= 2
        /\ s[1] \in {"-", "*"}
        /\ s[2] \in WS

\* clean_text(re.sub(r'^[\s]*[-*]\s+', '', original_line))
bullet_text_of(original_line) ==
    clean_text(lstrip(Tail(lstrip(original_line))))

\* re.sub(r'大纲$', '', line[2:].strip()).strip(), then clean_text
title_of(line) ==
    LET t == strip(SubSeq(line, 3, Len(line)))
        u == IF endswith(t, KwOutline) THEN SubSeq(t, 1, Len(t) - 2) ELSE t
    IN  clean_text(strip(u))

\* line_kind with the emphasis branch taken only by lines that hold no colon
line_kind_emphasis_without_colon(original_line) ==
    LET line == strip(original_line)
    IN  IF line = <<>> \/ line = <<"-", "-", "-">> \/ startswith(line, <<"-", "-", "-">>)
        THEN "skip"
        ELSE IF startswith(line, <<"#", " ">>) /\ ~startswith(line, <<"#", "#", " ">>)
        THEN "title"
        ELSE IF startswith(line, <<"#", "#", " ">>) /\ ~startswith(line, <<"#", "#", "#", " ">>)
        THEN "h2"
        ELSE IF startswith(line, <<"#", "#", "#", " ">>)
        THEN "h3"
        ELSE IF is_bullet_line(original_line)
        THEN "bullet"
        ELSE IF startswith(line, <<">", " ">>)
        THEN "quote"
        ELSE IF /\ startswith(line, <<"*", "*">>)
                /\ contains(SubSeq(line, 3, Len(line)), <<"*", "*">>)
                /\ ~contains(line, <<":">>)
                /\ ~contains(line, <<FullColon>>)
        THEN "emphasis"
        ELSE "text"

\* which branch of the loop body a line takes: the first test that matches
line_kind(original_line) ==
    LET line == strip(original_line)
    IN  IF line = <<>> \/ line = <<"-", "-", "-">> \/ startswith(line, <<"-", "-", "-">>)
        THEN "skip"
        ELSE IF startswith(line, <<"#", " ">>) /\ ~startswith(line, <<"#", "#", " ">>)
        THEN "title"
        ELSE IF startswith(line, <<"#", "#", " ">>) /\ ~startswith(line, <<"#", "#", "#", " ">>)
        THEN "h2"
        ELSE IF startswith(line, <<"#", "#", "#", " ">>)
        THEN "h3"
        ELSE IF is_bullet_line(original_line)
        THEN "bullet"
        ELSE IF startswith(line, <<">", " ">>)
        THEN "quote"
        ELSE IF startswith(line, <<"*", "*">>) /\ contains(SubSeq(line, 3, Len(line)), <<"*", "*">>)
        THEN "emphasis"
        ELSE "text"

\* h2_outcome with a plain chapter header taken as a marker that opens no slide
h2_outcome_chapter_opens_nothing(line) ==
    LET section_title == extract_title_from_section(line)
    IN  IF section_title = Absent \/ contains(line, KwCover) THEN "cover"
        ELSE IF \/ contains(section_title, KwSummary)
                \/ contains(section_title, KwEpilogue)
                \/ contains(section_title, KwTail)
        THEN "ending"
        ELSE "cover"

\* h2_outcome without the test for None in front of the cover keyword
h2_outcome_none_unchecked(line) ==
    LET section_title == extract_title_from_section(line)
    IN  IF contains(line, KwCover) THEN "cover"
        ELSE IF section_title = Absent THEN "raise"
        ELSE IF \/ contains(section_title, KwSummary)
                \/ contains(section_title, KwEpilogue)
                \/ contains(section_title, KwTail)
        THEN "ending"
        ELSE "content"

\* the outcomes of a '## ' header, from the stripped line: a cover marker, an ending, a
\* content slide; "raise" is the TypeError of `'总结' in section_title` on None
h2_outcome(line) ==
    LET section_title == extract_title_from_section(line)
    IN  IF section_title = Absent \/ contains(line, KwCover) THEN "cover"
        ELSE IF section_title = Absent THEN "raise"
        ELSE IF \/ contains(section_title, KwSummary)
                \/ contains(section_title, KwEpilogue)
                \/ contains(section_title, KwTail)
        THEN "ending"
        ELSE "content"

\* next_index with the counter stepped twice per opened slide
next_index_twice(k) == k + 2

\* layout_index += 1
next_index(k) == k + 1

-----------------------------------------------------------------------------
(* The lines an outline is made of. *)

LDemoTitle == <<"#", " ", "D", "e", "m", "o">>
LChapter == <<"#", "#", " ", "C", "h", "a", "p", "t", "e", "r", " ", "O", "n", "e">>
LTopic == <<"#", "#", "#", " ", "T", "o", "p", "i", "c">>
LLabel == <<"-", " ", "L", "a", "b", "e", "l", ":", " ", "s", "h", "o", "r", "t">>
LQuote == <<">", " ", "A", " ", "q", "u", "o", "t", "e">>
LSummary == <<"#", "#", " ", "U+603B", "U+7ED3">>
LEpilogue == <<"#", "#", " ", "U+7ED3", "U+8BED">>
LCover == <<"#", "#", " ", "U+5C01", "U+9762">>
LPageTail == <<"#", "#", " ", "U+7B2C", "1", "U+9875", "U+FF1A", "U+7ED3", "U+5C3E">>
LSubtitleBullet == <<"-", " ", "U+526F", "U+6807", "U+9898", "U+FF1A", "S">>
LTitleBullet == <<" ", "*", " ", "U+6807", "U+9898", "U+FF1A", "[", "x", "]", "T">>
LPlain == <<"p", "l", "a", "i", "n">>
LEmphasisColon == <<"*", "*", "L", "*", "*", ":", " ", "t">>
LEmptyQuote == <<">", " ", "*", "*">>
LEmphasisOnly == <<"*", "*", "N", "*", "*">>
LEmphasisOpen == <<"*", "*", "o">>
LSeparator == <<"-", "-", "-", "-">>
LBlank == <<" ">>

Lines ==
    {LDemoTitle, LChapter, LTopic, LLabel, LQuote, LSummary, LEpilogue, LCover,
     LPageTail, LSubtitleBullet, LTitleBullet, LPlain, LEmphasisColon, LEmptyQuote,
     LSeparator, LBlank}

\* the lines of an outline that is read for what it puts on its slides: a line to open
\* each kind of slide, and the lines that may follow it
BodyLines ==
    {LDemoTitle, LChapter, LTopic, LSummary, LCover, LLabel, LQuote, LEmptyQuote, LPlain,
     LEmphasisColon, LEmphasisOnly, LEmphasisOpen, LBlank}

\* the outline of the end-to-end scenario, line by line
DemoOutline == <<LDemoTitle, LChapter, LTopic, LLabel, LQuote>>

-----------------------------------------------------------------------------
(* Slides: Python dicts, as records with every key; a key the dict lacks is Absent. *)

NoSlide ==
    [type |-> "None", title |-> Absent, subtitle |-> Absent, slogan |-> Absent,
     bullets |-> AbsentList, quote |-> Absent, layout |-> NoLayout,
     image_desc |-> Absent, image |-> 0]

CoverPlaceholder == [NoSlide EXCEPT !.type = "_cover_placeholder"]

EndingSlide(title, bullets, quote) ==
    [NoSlide EXCEPT !.type = "ending", !.title = title, !.bullets = bullets,
                    !.quote = quote]

\* 'image' is the k of images/slide_k.png
ContentSlide(title, k) ==
    [NoSlide EXCEPT !.type = "content_image", !.title = title, !.bullets = <<>>,
                    !.layout = layouts[(k % 2) + 1],
                    !.image_desc = title \o ImageDescSuffix, !.image = k + 1]

CoverSlide(title, subtitle) ==
    [NoSlide EXCEPT !.type = "cover", !.title = title, !.subtitle = subtitle,
                    !.slogan = <<>>]

NoResult == [total_slides |-> -1, title |-> Absent, slides |-> <<>>]

\* Python truthiness of current_slide: None is false, every dict built here is non-empty
truthy(slide) == slide.type # "None"

has_bullets(slide) == slide.bullets # AbsentList

-----------------------------------------------------------------------------
(* parse_outline_to_json: one action per branch of the loop body, then the   *)
(* code after the loop.                                                      *)

\* what the loop body computes from the line alone, before it looks at the state
classify(original_line) ==
    LET line == strip(original_line)
        kind == line_kind(original_line)
    IN  [kind |-> kind,
         outcome |-> IF kind = "h2" THEN h2_outcome(line) ELSE "none",
         text |-> CASE kind = "title" -> title_of(line)
                    [] kind = "h2" -> extract_title_from_section(line)
                    [] kind = "h3" -> clean_text(SubSeq(line, 5, Len(line)))
                    [] kind = "bullet" -> bullet_text_of(original_line)
                    [] kind = "quote" -> clean_text(SubSeq(line, 3, Len(line)))
                    [] kind = "text" -> clean_text(line)
                    [] OTHER -> Absent]

Classified == [l \in Lines \cup BodyLines |-> classify(l)]

Observe(l) ==
    demo_prefix' = IF /\ demo_prefix >= 0
                      /\ demo_prefix < Len(DemoOutline)
                      /\ DemoOutline[demo_prefix + 1] = l
                   THEN demo_prefix + 1
                   ELSE -1

\* which cover field a bullet read under the cover marker sets
cover_key(bullet_text) ==
    IF contains(bullet_text, KwTitle) /\ contains(bullet_text, <<FullColon>>) THEN "title"
    ELSE IF contains(bullet_text, KwSubtitle) /\ contains(bullet_text, <<FullColon>>)
    THEN "subtitle"
    ELSE "none"

\* the loop body raises on this line: the TypeError of a membership test on None, or the
\* IndexError of bullet_text.split('：', 1)[1] on a bullet without the colon
raises(l, cur) ==
    \/ /\ Classified[l].kind = "h2"
       /\ Classified[l].outcome = "raise"
    \/ /\ Classified[l].kind = "bullet"
       /\ cur.type = "_cover_placeholder"
       /\ cover_key(Classified[l].text) # "none"
       /\ ~contains(Classified[l].text, <<FullColon>>)

Reading(l, kind) ==
    /\ pc = "parsing"
    /\ nread < MaxLines
    /\ Classified[l].kind = kind
    /\ nread' = nread + 1
    /\ Observe(l)
    /\ pc' = IF raises(l, current_slide) THEN "raised" ELSE pc
    /\ UNCHANGED <<result, renderVars, flowVars, ioVars>>

ReadSkipLine(l) ==
    /\ Reading(l, "skip")
    /\ UNCHANGED <<slides, current_slide, cover_title, cover_subtitle, layout_index>>

ReadSkip == \E l \in Lines : ReadSkipLine(l)

ReadTitleLine(l) ==
    /\ Reading(l, "title")
    /\ cover_title' = IF Classified[l].text # <<>> THEN Classified[l].text ELSE cover_title
    /\ UNCHANGED <<slides, current_slide, cover_subtitle, layout_index>>

ReadTitle == \E l \in Lines : ReadTitleLine(l)

ReadH2Line(l) ==
    /\ Reading(l, "h2")
    /\ slides' = IF truthy(current_slide) THEN Append(slides, current_slide) ELSE slides
    /\ LET section_title == Classified[l].text
           outcome == Classified[l].outcome
       IN  CASE outcome = "cover" ->
                    /\ current_slide' = CoverPlaceholder
                    /\ UNCHANGED layout_index
             [] outcome = "ending" ->
                    /\ current_slide' = EndingSlide(section_title, <<>>, <<>>)
                    /\ UNCHANGED layout_index
             [] outcome = "content" ->
                    /\ current_slide' = ContentSlide(section_title, layout_index)
                    /\ layout_index' = next_index(layout_index)
             [] outcome = "raise" ->
                    UNCHANGED <<current_slide, layout_index>>
    /\ UNCHANGED <<cover_title, cover_subtitle>>

ReadH2 == \E l \in Lines : ReadH2Line(l)

ReadH3Line(l) ==
    /\ Reading(l, "h3")
    /\ slides' = IF truthy(current_slide) /\ current_slide.type # "_cover_placeholder"
                 THEN Append(slides, current_slide)
                 ELSE slides
    /\ current_slide' = ContentSlide(Classified[l].text, layout_index)
    /\ layout_index' = next_index(layout_index)
    /\ UNCHANGED <<cover_title, cover_subtitle>>

ReadH3 == \E l \in Lines : ReadH3Line(l)

ReadBulletLine(l) ==
    /\ Reading(l, "bullet")
    /\ LET bullet_text == Classified[l].text
       IN  IF ~truthy(current_slide)
           THEN UNCHANGED <<current_slide, cover_title, cover_subtitle>>
           ELSE IF current_slide.type = "_cover_placeholder"
           THEN IF raises(l, current_slide)
                THEN UNCHANGED <<current_slide, cover_title, cover_subtitle>>
                ELSE IF cover_key(bullet_text) = "title"
                THEN /\ cover_title' = strip(after_first(bullet_text, <<FullColon>>))
                     /\ UNCHANGED <<current_slide, cover_subtitle>>
                ELSE IF cover_key(bullet_text) = "subtitle"
                THEN /\ cover_subtitle' = strip(after_first(bullet_text, <<FullColon>>))
                     /\ UNCHANGED <<current_slide, cover_title>>
                ELSE UNCHANGED <<current_slide, cover_title, cover_subtitle>>
           ELSE IF has_bullets(current_slide) /\ bullet_text # <<>>
           THEN /\ current_slide' =
                       [current_slide EXCEPT !.bullets = Append(@, bullet_text)]
                /\ UNCHANGED <<cover_title, cover_subtitle>>
           ELSE UNCHANGED <<current_slide, cover_title, cover_subtitle>>
    /\ UNCHANGED <<slides, layout_index>>

ReadBullet == \E l \in Lines : ReadBulletLine(l)

\* set_quote keeping the quote a slide already has
set_quote_keep_first(slide, text) ==
    IF slide.quote = Absent \/ slide.quote = <<>>
    THEN [slide EXCEPT !.quote = text]
    ELSE slide

\* current_slide['quote'] = clean_text(line[2:])
set_quote(slide, text) ==
    [slide EXCEPT !.quote = text]

ReadQuoteLine(l) ==
    /\ Reading(l, "quote")
    /\ current_slide' =
           IF truthy(current_slide) /\ current_slide.type # "_cover_placeholder"
           THEN set_quote(current_slide, Classified[l].text)
           ELSE current_slide
    /\ UNCHANGED <<slides, cover_title, cover_subtitle, layout_index>>

ReadQuote == \E l \in Lines : ReadQuoteLine(l)

ReadEmphasisLine(l) ==
    /\ Reading(l, "emphasis")
    /\ UNCHANGED <<slides, current_slide, cover_title, cover_subtitle, layout_index>>

ReadEmphasis == \E l \in Lines : ReadEmphasisLine(l)

ReadTextLine(l) ==
    /\ Reading(l, "text")
    /\ LET cleaned == Classified[l].text
       IN  IF current_slide.type = "None"
           THEN /\ cover_subtitle' = IF cover_subtitle = <<>> THEN cleaned ELSE cover_subtitle
                /\ UNCHANGED current_slide
           ELSE IF /\ has_bullets(current_slide)
                   /\ cleaned # <<>>
                   /\ ~startswith(cleaned, <<"*", "*">>)
           THEN /\ current_slide' = [current_slide EXCEPT !.bullets = Append(@, cleaned)]
                /\ UNCHANGED cover_subtitle
           ELSE UNCHANGED <<current_slide, cover_subtitle>>
    /\ UNCHANGED <<slides, cover_title, layout_index>>

ReadText == \E l \in Lines : ReadTextLine(l)

RECURSIVE drop_placeholders(_)
drop_placeholders(ss) ==
    IF ss = <<>> THEN <<>>
    ELSE IF Head(ss).type = "_cover_placeholder" THEN drop_placeholders(Tail(ss))
    ELSE <<Head(ss)>> \o drop_placeholders(Tail(ss))

default_ending ==
    EndingSlide(DefaultEndingTitle, <<DefaultEndingBullet>>, DefaultEndingQuote)

\* total_slides_of with the cover left out of the count
total_slides_of_without_cover(body) == Len(body)

\* the metadata's total_slides
total_slides_of(body) == Len(body) + 1

\* assemble with the cover appended after the body instead of put in front
assemble_cover_last(ss, cur, ctitle, csubtitle) ==
    LET all == IF truthy(cur) /\ cur.type # "_cover_placeholder" THEN Append(ss, cur) ELSE ss
        kept == drop_placeholders(all)
        has_ending == \E i \in 1..Len(kept) : kept[i].type = "ending"
        body == IF has_ending THEN kept ELSE Append(kept, default_ending)
        cover_slide == CoverSlide(ctitle, IF csubtitle # <<>> THEN csubtitle ELSE DefaultSubtitle)
    IN  [total_slides |-> total_slides_of(body), title |-> ctitle,
         slides |-> body \o <<cover_slide>>]

\* assemble with the default ending appended whether or not an ending exists
assemble_always_default_ending(ss, cur, ctitle, csubtitle) ==
    LET all == IF truthy(cur) /\ cur.type # "_cover_placeholder" THEN Append(ss, cur) ELSE ss
        kept == drop_placeholders(all)
        body == Append(kept, default_ending)
        cover_slide == CoverSlide(ctitle, IF csubtitle # <<>> THEN csubtitle ELSE DefaultSubtitle)
    IN  [total_slides |-> total_slides_of(body), title |-> ctitle,
         slides |-> <<cover_slide>> \o body]

\* assemble without the save of the slide in progress at the end of the input
assemble_without_last_slide(ss, cur, ctitle, csubtitle) ==
    LET kept == drop_placeholders(ss)
        has_ending == \E i \in 1..Len(kept) : kept[i].type = "ending"
        body == IF has_ending THEN kept ELSE Append(kept, default_ending)
        cover_slide == CoverSlide(ctitle, IF csubtitle # <<>> THEN csubtitle ELSE DefaultSubtitle)
    IN  [total_slides |-> total_slides_of(body), title |-> ctitle,
         slides |-> <<cover_slide>> \o body]

\* the code after the loop
assemble(ss, cur, ctitle, csubtitle) ==
    LET all == IF truthy(cur) /\ cur.type # "_cover_placeholder" THEN Append(ss, cur) ELSE ss
        kept == drop_placeholders(all)
        has_ending == \E i \in 1..Len(kept) : kept[i].type = "ending"
        body == IF has_ending THEN kept ELSE Append(kept, default_ending)
        cover_slide == CoverSlide(ctitle, IF csubtitle # <<>> THEN csubtitle ELSE DefaultSubtitle)
    IN  [total_slides |-> total_slides_of(body), title |-> ctitle,
         slides |-> <<cover_slide>> \o body]

Finish ==
    /\ pc = "parsing"
    /\ pc' = "done"
    /\ result' = assemble(slides, current_slide, cover_title, cover_subtitle)
    /\ UNCHANGED <<nread, slides, current_slide, cover_title, cover_subtitle,
                   layout_index, demo_prefix, renderVars, flowVars, ioVars>>

ParserIdle ==
    /\ nread = 0
    /\ slides = <<>>
    /\ current_slide = NoSlide
    /\ cover_title = DefaultCoverTitle
    /\ cover_subtitle = <<>>
    /\ layout_index = 0
    /\ result = NoResult
    /\ demo_prefix = 0

-----------------------------------------------------------------------------
(* AutoPPTGeneratorV3.  Lengths are in thousandths of an inch: Inches(0.3) is *)
(* 300, and the slide is 10000 wide and 5625 high.                            *)

CanvasWidth == 10000
CanvasHeight == 5625

\* a rectangle is <<x, y, width, height>>
NoBox == <<0, 0, 0, 0>>

\* LAYOUTS with the image of top_text_bottom_image at its former height
LAYOUTS_tall_bottom_image ==
    [left_text_right_image |->
        [text_area |-> <<300, 1300, 4500, 3500>>, image_area |-> <<5000, 1300, 4500, 3500>>],
     right_text_left_image |->
        [text_area |-> <<5000, 1300, 4500, 3500>>, image_area |-> <<300, 1300, 4500, 3500>>],
     top_text_bottom_image |->
        [text_area |-> <<300, 1200, 9400, 1500>>, image_area |-> <<2500, 2800, 5000, 3000>>],
     large_image_small_text |->
        [image_area |-> <<300, 1200, 5500, 3500>>, text_area |-> <<6000, 1300, 3500, 3500>>],
     balanced |->
        [text_area |-> <<300, 1300, 4500, 3500>>, image_area |-> <<5000, 1300, 4500, 3500>>],
     emphasis_text |->
        [text_area |-> <<300, 1300, 6200, 3500>>, image_area |-> <<6800, 1500, 2800, 3000>>]]

LAYOUTS ==
    [left_text_right_image |->
        [text_area |-> <<300, 1300, 4500, 3500>>, image_area |-> <<5000, 1300, 4500, 3500>>],
     right_text_left_image |->
        [text_area |-> <<5000, 1300, 4500, 3500>>, image_area |-> <<300, 1300, 4500, 3500>>],
     top_text_bottom_image |->
        [text_area |-> <<300, 1200, 9400, 1500>>, image_area |-> <<2500, 2800, 5000, 2200>>],
     large_image_small_text |->
        [image_area |-> <<300, 1200, 5500, 3500>>, text_area |-> <<6000, 1300, 3500, 3500>>],
     balanced |->
        [text_area |-> <<300, 1300, 4500, 3500>>, image_area |-> <<5000, 1300, 4500, 3500>>],
     emphasis_text |->
        [text_area |-> <<300, 1300, 6200, 3500>>, image_area |-> <<6800, 1500, 2800, 3000>>]]

\* list(self.LAYOUTS.keys()): the catalog's names in the order they are written
CatalogNames ==
    <<"left_text_right_image", "right_text_left_image", "top_text_bottom_image",
      "large_image_small_text", "balanced", "emphasis_text">>

\* a 'layout' key whose value is None
NullLayout == "<null>"

\* auto_select_layout with a counter of content slides only
auto_select_layout_by_content_count(index) ==
    CatalogNames[(Len(assigned) % Len(CatalogNames)) + 1]

auto_select_layout(index) ==
    CatalogNames[(index % Len(CatalogNames)) + 1]

\* the quote band of a content slide, and the quote box of an ending slide
QuoteBand == <<300, 5150, 9400, 400>>
EndingQuoteBox == <<1000, 4600, 8000, 800>>

QuoteLimit == 60
QuoteKeep == 57
Ellipsis == <<".", ".", ".">>
QuotePrefix == <<"U+1F4A1", " ">>

\* resolve_quote cut at the limit instead of three short of it
resolve_quote_cut_at_limit(quote_text) ==
    IF Len(quote_text) > QuoteLimit
    THEN SubSeq(quote_text, 1, QuoteLimit) \o Ellipsis
    ELSE quote_text

\* the quote text of a content slide, truncated
resolve_quote(quote_text) ==
    IF Len(quote_text) > QuoteLimit
    THEN SubSeq(quote_text, 1, QuoteKeep) \o Ellipsis
    ELSE quote_text

\* Python truthiness of data.get('quote')
has_quote(data) == data.quote # Absent /\ data.quote # <<>>

\* what the drawing library was given for one slide
NoRender ==
    [type |-> "None", data |-> NoSlide, at |-> -1, layout |-> NoLayout,
     text_box |-> NoBox, image_box |-> NoBox, image |-> "none",
     quote_box |-> NoBox, quote_text |-> Absent]

\* the image of a content slide: how the lookup and the insertion went
ImageOutcomes == {"no_field", "not_found", "inserted", "insert_failed"}

\* image_drawn without the handler of a failed insertion
image_drawn_insert_unguarded(outcome) ==
    CASE outcome = "inserted" -> "picture"
      [] outcome = "insert_failed" -> "none"
      [] OTHER -> "placeholder"

\* add_picture when a candidate path exists and the insertion goes through,
\* _add_image_placeholder in every other case
image_drawn(outcome) ==
    IF outcome = "inserted" THEN "picture" ELSE "placeholder"

\* data.get('layout', self.auto_select_layout(data))
layout_type_of(data, index) ==
    IF data.layout = NoLayout THEN auto_select_layout(index) ELSE data.layout

\* content_render with the quote band on every layout
content_render_band_on_every_layout(data, index, outcome) ==
    LET layout_type == layout_type_of(data, index)
        layout_config == LAYOUTS[layout_type]
        draws_quote == has_quote(data)
    IN  [type |-> "content_image", data |-> data, at |-> index, layout |-> layout_type,
         text_box |-> layout_config.text_area,
         image_box |-> layout_config.image_area,
         image |-> image_drawn(outcome),
         quote_box |-> IF draws_quote THEN QuoteBand ELSE NoBox,
         quote_text |-> IF draws_quote THEN QuotePrefix \o resolve_quote(data.quote)
                        ELSE Absent]

content_render(data, index, outcome) ==
    LET layout_type == layout_type_of(data, index)
        layout_config == LAYOUTS[layout_type]
        draws_quote == has_quote(data) /\ layout_type # "large_image_small_text"
    IN  [type |-> "content_image", data |-> data, at |-> index, layout |-> layout_type,
         text_box |-> layout_config.text_area,
         image_box |-> layout_config.image_area,
         image |-> image_drawn(outcome),
         quote_box |-> IF draws_quote THEN QuoteBand ELSE NoBox,
         quote_text |-> IF draws_quote THEN QuotePrefix \o resolve_quote(data.quote)
                        ELSE Absent]

ending_render(data, index) ==
    [NoRender EXCEPT !.type = "ending", !.data = data, !.at = index,
                     !.quote_box = IF has_quote(data) THEN EndingQuoteBox ELSE NoBox,
                     !.quote_text = IF has_quote(data) THEN QuotePrefix \o data.quote
                                    ELSE Absent]

plain_render(data, index) ==
    [NoRender EXCEPT !.type = data.type, !.data = data, !.at = index]

\* the slides a document can hold
Alphabet == <<"a", "b", "c", "d", "e", "f", "g">>
QuoteOfLen(n) == [i \in 1..n |-> Alphabet[(i % Len(Alphabet)) + 1]]
RichQuotes == {Absent} \cup {QuoteOfLen(n) : n \in {0, QuoteLimit, QuoteLimit + 1, MaxQuoteLen}}
PlainQuotes == {Absent}
TxtT == <<"T">>

OtherSlide(type) == [NoSlide EXCEPT !.type = type, !.title = TxtT]

\* a content_image entry of a JSON document: the 'layout' key absent or naming a layout
JsonContents(Quotes) ==
    {[NoSlide EXCEPT !.type = "content_image", !.title = TxtT, !.bullets = <<>>,
                     !.quote = q, !.layout = l] :
        q \in Quotes, l \in {NoLayout} \cup {CatalogNames[i] : i \in 1..Len(CatalogNames)}}

\* a content_image entry whose 'layout' is null or names no layout of the catalog
BadLayoutContents ==
    {[NoSlide EXCEPT !.type = "content_image", !.title = TxtT, !.bullets = <<>>,
                     !.layout = l] : l \in {NullLayout, "diagonal"}}

\* the next content slide of a document made by parse_outline_to_json
ParsedContents(Quotes) ==
    {[ContentSlide(TxtT, layout_index) EXCEPT !.quote = q] : q \in Quotes}

Endings(Quotes) ==
    {EndingSlide(TxtT, <<>>, IF q = Absent THEN <<>> ELSE q) : q \in Quotes}

\* one turn of the loop of generate_from_json
Rendering(bound) ==
    /\ pc = "rendering"
    /\ nseen < bound
    /\ nseen' = nseen + 1
    /\ UNCHANGED <<pc, parserVars, flowVars, ioVars>>

Drawn(render) ==
    /\ last' = render
    /\ nslides' = nslides + 1
    /\ recognized' = recognized + 1
    /\ slide_index' = slide_index + 1

create_cover_slide(bound) ==
    /\ Rendering(bound)
    /\ Drawn(plain_render(OtherSlide("cover"), slide_index))
    /\ UNCHANGED <<assigned, layout_index>>

create_section_slide(bound) ==
    /\ Rendering(bound)
    /\ Drawn(plain_render(OtherSlide("section"), slide_index))
    /\ UNCHANGED <<assigned, layout_index>>

create_chart_slide(bound) ==
    /\ Rendering(bound)
    /\ Drawn(plain_render(OtherSlide("chart"), slide_index))
    /\ UNCHANGED <<assigned, layout_index>>

create_ending_slide(Quotes, bound) ==
    \E data \in Endings(Quotes) :
        /\ Rendering(bound)
        /\ Drawn(ending_render(data, slide_index))
        /\ UNCHANGED <<assigned, layout_index>>

\* create_content_with_image_slide on one entry, the image lookup going one way
draw_content(data, outcome, bound) ==
    /\ Rendering(bound)
    /\ Drawn(content_render(data, slide_index, outcome))
    /\ assigned' = IF data.layout = NoLayout
                   THEN Append(assigned, [by |-> "auto_select_layout",
                                          layout |-> layout_type_of(data, slide_index),
                                          at |-> slide_index])
                   ELSE assigned
    /\ UNCHANGED layout_index

\* a content slide of a JSON document
create_content_with_image_slide(Quotes, bound) ==
    \E data \in JsonContents(Quotes), outcome \in ImageOutcomes :
        draw_content(data, outcome, bound)

\* a content slide of a document the outline parser made
draw_parsed_content(data, outcome, bound) ==
    /\ Rendering(bound)
    /\ Drawn(content_render(data, slide_index, outcome))
    /\ assigned' = Append(assigned, [by |-> "parse_outline_to_json",
                                     layout |-> layout_type_of(data, slide_index),
                                     at |-> slide_index])
    /\ layout_index' = next_index(layout_index)

create_parsed_content_slide(Quotes, bound) ==
    \E data \in ParsedContents(Quotes), outcome \in ImageOutcomes :
        draw_parsed_content(data, outcome, bound)

\* LAYOUTS[layout_type] raises KeyError: the slide was added, nothing is saved
create_content_bad_layout(bound) ==
    \E data \in BadLayoutContents :
        /\ pc = "rendering"
        /\ nseen < bound
        /\ nseen' = nseen + 1
        /\ pc' = "crashed"
        /\ nslides' = nslides + 1
        /\ recognized' = recognized + 1
        /\ last' = [NoRender EXCEPT !.type = "content_image", !.data = data,
                                    !.at = slide_index, !.layout = data.layout]
        /\ UNCHANGED <<slide_index, assigned, layout_index, parserVars, flowVars, ioVars>>

\* an entry whose type is none of the five
skip_unknown_type(bound) ==
    /\ Rendering(bound)
    /\ UNCHANGED <<slide_index, nslides, recognized, last, assigned, layout_index>>

\* self.prs.save(output_path)
save ==
    /\ pc = "rendering"
    /\ pc' = "saved"
    /\ UNCHANGED <<parserVars, renderVars, flowVars, layout_index, ioVars>>

generate_from_json(Quotes, bound) ==
    \/ create_cover_slide(bound)
    \/ create_section_slide(bound)
    \/ create_chart_slide(bound)
    \/ create_ending_slide(Quotes, bound)
    \/ create_content_with_image_slide(Quotes, bound)
    \/ create_parsed_content_slide(Quotes, bound)
    \/ create_content_bad_layout(bound)
    \/ skip_unknown_type(bound)
    \/ save

RenderIdle ==
    /\ nseen = 0
    /\ slide_index = 0
    /\ nslides = 0
    /\ recognized = 0
    /\ last = NoRender
    /\ assigned = <<>>

FlowIdle ==
    /\ words = <<>>
    /\ bullet = <<>>
    /\ runs = <<>>

\* None
NoReturn == <<FALSE, "None">>

RetryIdle ==
    /\ max_retries = 0
    /\ attempt = 0
    /\ response = "none"
    /\ posts = 0
    /\ slept = <<>>
    /\ retval = NoReturn

NoStats == [unsplash_success |-> 0, ai_success |-> 0, failed |-> 0, details |-> <<>>]

DownloadIdle ==
    /\ image_tasks = <<>>
    /\ siliconflow_key = FALSE
    /\ unsplash_key = FALSE
    /\ ntask = 0
    /\ stats = NoStats
    /\ success_paths = [py |-> "NoneType", items |-> <<>>]

\* json_data = None
NoJson == [py |-> "NoneType", has_slides |-> FALSE, slides |-> <<>>]

NoText == [kind |-> "none", value |-> NoJson]

MainIdle ==
    /\ text_content = NoText
    /\ json_data = NoJson
    /\ parser_calls = 0

IoIdle ==
    /\ RetryIdle
    /\ DownloadIdle
    /\ MainIdle

Init ==
    /\ pc = "parsing"
    /\ ParserIdle
    /\ RenderIdle
    /\ FlowIdle
    /\ IoIdle

Next ==
    \/ ReadSkip
    \/ ReadTitle
    \/ ReadH2
    \/ ReadH3
    \/ ReadBullet
    \/ ReadQuote
    \/ ReadEmphasis
    \/ ReadText
    \/ Finish

Spec == Init /\ [][Next]_vars

InitRender ==
    /\ pc = "rendering"
    /\ ParserIdle
    /\ RenderIdle
    /\ FlowIdle
    /\ IoIdle

NextRender == generate_from_json(RichQuotes, MaxSlides)

SpecRender == InitRender /\ [][NextRender]_vars

NextRotation == generate_from_json(PlainQuotes, MaxDeck)

SpecRotation == InitRender /\ [][NextRotation]_vars

-----------------------------------------------------------------------------
(* TemplateBasedGenerator in clone mode: _generate_clone_mode hands every entry *)
(* to _create_slide_with_style, which dispatches on its type.                  *)

SlideTypes == {"cover", "section", "content_image", "chart", "ending"}

\* a type that is none of the five, and an entry without a type
UnknownTypes == {"mystery", "None"}

\* the creator _create_slide_with_style runs for a type: the else branch is
\* _create_content_slide
style_creator(slide_type) ==
    IF slide_type \in SlideTypes THEN slide_type ELSE "content_image"

\* one turn of the loop of _generate_clone_mode: every creator adds a slide
_create_slide_with_style ==
    \E slide_type \in SlideTypes \cup UnknownTypes :
        /\ pc = "cloning"
        /\ nseen < MaxDeck
        /\ nseen' = nseen + 1
        /\ recognized' = IF slide_type \in SlideTypes THEN recognized + 1 ELSE recognized
        /\ nslides' = nslides + 1
        /\ slide_index' = slide_index + 1
        /\ last' = [NoRender EXCEPT !.type = style_creator(slide_type),
                                    !.data = OtherSlide(slide_type),
                                    !.at = slide_index]
        /\ UNCHANGED <<pc, assigned, layout_index, parserVars, flowVars, ioVars>>

\* self.prs.save(output_path)
clone_save ==
    /\ pc = "cloning"
    /\ pc' = "clone_saved"
    /\ UNCHANGED <<parserVars, renderVars, flowVars, layout_index, ioVars>>

InitClone ==
    /\ pc = "cloning"
    /\ ParserIdle
    /\ RenderIdle
    /\ FlowIdle
    /\ IoIdle

_generate_clone_mode ==
    \/ _create_slide_with_style
    \/ clone_save

SpecClone == InitClone /\ [][_generate_clone_mode]_vars

\* parse_outline_to_json on the outlines made of BodyLines
ReadBodyLine(l) ==
    \/ ReadSkipLine(l)
    \/ ReadTitleLine(l)
    \/ ReadH2Line(l)
    \/ ReadH3Line(l)
    \/ ReadBulletLine(l)
    \/ ReadQuoteLine(l)
    \/ ReadEmphasisLine(l)
    \/ ReadTextLine(l)

NextBody ==
    \/ \E l \in BodyLines : ReadBodyLine(l)
    \/ Finish

SpecBody == Init /\ [][NextBody]_vars

-----------------------------------------------------------------------------
(* AutoPPTGeneratorV3.add_structured_bullets, for one bullet: the runs it    *)
(* adds, each with the paragraph it goes to (1 is the bullet's own).         *)

ContentLimit == 25
LineLimit == 35
Window == 40
MinCut == 20

\* for punct in ['，', '、', '；', '。', ' ']
Puncts == <<"U+FF0C", "U+3001", "U+FF1B", "U+3002", " ">>

\* rfind_in_window looking through all of the remaining text, not its first 40 characters
rfind_anywhere(w, punct) ==
    LET hits == {i \in 1..Len(w) : w[i] = punct}
    IN  IF hits = {} THEN 0 ELSE CHOOSE i \in hits : \A j \in hits : j <= i

\* words[:40].rfind(punct) + 1: the 1-based position of the last punct among the first
\* 40 characters, 0 when there is none
rfind_in_window(w, punct) ==
    LET hits == {i \in 1..Len(w) : i <= Window /\ w[i] = punct}
    IN  IF hits = {} THEN 0 ELSE CHOOSE i \in hits : \A j \in hits : j <= i

\* first_cut taking the mark nearest to the end of the window, of whichever kind
first_cut_nearest(w, k) ==
    LET ends == {rfind_in_window(w, Puncts[j]) : j \in k..Len(Puncts)}
        best == CHOOSE i \in ends : \A j \in ends : j <= i
    IN  IF best - 1 > MinCut THEN best ELSE LineLimit

\* the first punctuation of the list, in its order, found past MinCut: the for loop
\* breaks there.  0-based rfind pos > 20 is 1-based position > 21.
RECURSIVE first_cut(_, _)
first_cut(w, k) ==
    IF k > Len(Puncts) THEN LineLimit
    ELSE IF rfind_in_window(w, Puncts[k]) - 1 > MinCut THEN rfind_in_window(w, Puncts[k])
    ELSE first_cut(w, k + 1)

\* split_pos with the rest of the bullet starting one character late
rest_after_skipping_one(w) ==
    SubSeq(w, first_cut(w, 1) + 2, Len(w))

\* split_pos: how many characters the next segment takes
split_pos(w) == first_cut(w, 1)

\* words[split_pos:]
rest_after(w) ==
    SubSeq(w, split_pos(w) + 1, Len(w))

has_colon(b) == contains(b, <<FullColon>>) \/ contains(b, <<":">>)

\* colon_of taking whichever of the two colons comes first in the bullet
colon_of_first_occurrence(b) ==
    IF /\ contains(b, <<FullColon>>)
       /\ (~contains(b, <<":">>) \/ find(b, <<FullColon>>) < find(b, <<":">>))
    THEN <<FullColon>>
    ELSE <<":">>

\* bullet.split('：', 1) if '：' in bullet else bullet.split(':', 1)
colon_of(b) == IF contains(b, <<FullColon>>) THEN <<FullColon>> ELSE <<":">>
before_first(b, sep) == SubSeq(b, 1, find(b, sep) - 1)

Run(text, para) == [text |-> text, para |-> para]

\* the bullets given: free of colons and long, with up to two punctuation marks put in
\* a run of distinguishable letters; some short ones; some with a colon
Letters == <<"a", "b", "c", "d", "e", "f", "g", "h", "i", "j", "k">>
PlainOfLen(n) == [i \in 1..n |-> Letters[(i % Len(Letters)) + 1]]
BulletLens == {36, 41, 58, 62, 71, MaxBulletLen}
PunctPlaces == {21, 22, 35, 36, 40, 41, 57, 62}
PunctChars == {"U+FF0C", "U+3002", " "}

WithPunct(b, place, c) ==
    IF place <= Len(b) THEN [b EXCEPT ![place] = c] ELSE b

LongBullets ==
    {WithPunct(WithPunct(PlainOfLen(n), p1, c1), p2, c2) :
        n \in BulletLens, p1 \in PunctPlaces, p2 \in PunctPlaces \cup {MaxBulletLen + 1},
        c1 \in PunctChars, c2 \in PunctChars}

ShortBullets == {PlainOfLen(n) : n \in {0, 1, LineLimit}}

ColonBullets ==
    {<<"X", c>> \o PlainOfLen(n) : c \in {FullColon, ":"}, n \in {0, ContentLimit, ContentLimit + 1}}
    \cup {<<"X", ":", "a", FullColon, " ", "b">>, <<" ", "X", " ", FullColon, "a", ":", "b", " ">>}
    \cup {<<"X", c, " ">> \o PlainOfLen(n) \o <<" ">> :
              c \in {FullColon, ":"}, n \in {ContentLimit - 1, ContentLimit, ContentLimit + 1}}
    \cup {<<"X", ":", "a", FullColon>> \o PlainOfLen(ContentLimit + 1),
          <<"X", FullColon, "a", ":">> \o PlainOfLen(ContentLimit + 1),
          <<"X", ":", "a", ":", "b">>}

Bullets == LongBullets \cup ShortBullets \cup ColonBullets

InFlow(at) ==
    /\ pc = at
    /\ UNCHANGED <<bullet, parserVars, layout_index, renderVars, ioVars>>

\* content_run with the content kept on the label's line whatever its length
content_run_always_inline(content_text) ==
    Run(content_text, 1)

\* run2: in a paragraph of its own behind two spaces when longer than 25, else inline
content_run(content_text) ==
    IF Len(content_text) > ContentLimit
    THEN Run(<<" ", " ">> \o content_text, 2)
    ELSE Run(content_text, 1)

\* '标题：内容': the label in bold, the content after it or in a paragraph of its own
flow_colon ==
    /\ InFlow("flow_start")
    /\ has_colon(bullet)
    /\ LET title_text == strip(before_first(bullet, colon_of(bullet)))
           content_text == strip(after_first(bullet, colon_of(bullet)))
       IN  runs' = <<Run(title_text \o <<FullColon>>, 1), content_run(content_text)>>
    /\ pc' = "flow_done"
    /\ UNCHANGED words

\* no colon and at most 35 characters: one run, as it is
flow_short ==
    /\ InFlow("flow_start")
    /\ ~has_colon(bullet)
    /\ Len(bullet) <= LineLimit
    /\ runs' = <<Run(bullet, 1)>>
    /\ pc' = "flow_done"
    /\ UNCHANGED words

\* no colon and more than 35 characters: words = bullet
flow_long ==
    /\ InFlow("flow_start")
    /\ ~has_colon(bullet)
    /\ Len(bullet) > LineLimit
    /\ words' = bullet
    /\ pc' = "flow_loop"
    /\ UNCHANGED runs

next_para == IF runs = <<>> THEN 1 ELSE runs[Len(runs)].para + 1

\* one turn of `while len(words) > 35`
flow_segment ==
    /\ InFlow("flow_loop")
    /\ Len(words) > LineLimit
    /\ runs' = Append(runs, Run(SubSeq(words, 1, split_pos(words)), next_para))
    /\ words' = rest_after(words)
    /\ UNCHANGED pc

\* after the loop: `if words:` the remainder is a run of its own
flow_remainder ==
    /\ InFlow("flow_loop")
    /\ Len(words) <= LineLimit
    /\ runs' = IF words # <<>> THEN Append(runs, Run(words, next_para)) ELSE runs
    /\ words' = <<>>
    /\ pc' = "flow_done"

InitFlow ==
    /\ pc = "flow_start"
    /\ ParserIdle
    /\ RenderIdle
    /\ IoIdle
    /\ bullet \in Bullets
    /\ words = <<>>
    /\ runs = <<>>

add_structured_bullets ==
    \/ flow_colon
    \/ flow_short
    \/ flow_long
    \/ flow_segment
    \/ flow_remainder

SpecFlow == InitFlow /\ [][add_structured_bullets]_vars

-----------------------------------------------------------------------------
(* Properties of parse_outline_to_json, checked under Spec. *)

Returned == pc = "done"

IsContent(sl) == sl.type = "content_image"
IsEnding(sl) == sl.type = "ending"

\* every slide a header has opened so far, in the order the headers were read
Opened == slides \o <<current_slide>>
OpenedContent == SelectSeq(Opened, IsContent)
EndingOpened == \E i \in 1..Len(Opened) : IsEnding(Opened[i])

IsDefaultEnding(sl) ==
    /\ sl.type = "ending"
    /\ sl.title = DefaultEndingTitle
    /\ sl.bullets = <<DefaultEndingBullet>>
    /\ sl.quote = DefaultEndingQuote

DemoRead == Returned /\ demo_prefix = Len(DemoOutline)

TxtDemo == <<"D", "e", "m", "o">>
TxtChapterOne == <<"C", "h", "a", "p", "t", "e", "r", " ", "O", "n", "e">>
TxtTopic == <<"T", "o", "p", "i", "c">>
TxtLabelShort == <<"L", "a", "b", "e", "l", ":", " ", "s", "h", "o", "r", "t">>
TxtAQuote == <<"A", " ", "q", "u", "o", "t", "e">>

IsDemoTopic(sl) ==
    /\ sl.type = "content_image"
    /\ sl.title = TxtTopic
    /\ sl.bullets = <<TxtLabelShort>>
    /\ sl.quote = TxtAQuote

\* C1 as stated: the demo outline parses to exactly 3 slides, cover "Demo", the content
\* slide "Topic" (one bullet "Label: short", quote "A quote"), the default ending; the
\* '## Chapter One' header emits no slide.
C1_AsStated ==
    DemoRead =>
        /\ Len(result.slides) = 3
        /\ result.slides[1].type = "cover"
        /\ result.slides[1].title = TxtDemo
        /\ IsDemoTopic(result.slides[2])
        /\ IsDefaultEnding(result.slides[3])

\* C1 amended: the demo outline parses to exactly 4 slides, in this order: the cover
\* "Demo", a content slide "Chapter One" opened by the '## Chapter One' header (no
\* bullets, no quote), the content slide "Topic" (one bullet "Label: short", quote
\* "A quote"), and the default ending.
C1_DemoOutline ==
    DemoRead =>
        /\ Len(result.slides) = 4
        /\ result.slides[1].type = "cover"
        /\ result.slides[1].title = TxtDemo
        /\ result.slides[2].type = "content_image"
        /\ result.slides[2].title = TxtChapterOne
        /\ result.slides[2].bullets = <<>>
        /\ result.slides[2].quote = Absent
        /\ IsDemoTopic(result.slides[3])
        /\ IsDefaultEnding(result.slides[4])

C1_Witness == DemoRead /\ Len(result.slides) = 4

\* C2: the returned document has a cover slide at index 0 and nowhere else; its title is
\* the accumulated cover title and its subtitle the accumulated subtitle, or the fixed
\* default when none was seen.
C2_CoverFirstAndOnly ==
    Returned =>
        /\ Len(result.slides) >= 1
        /\ result.slides[1].type = "cover"
        /\ \A i \in 2..Len(result.slides) : result.slides[i].type # "cover"
        /\ result.slides[1].title = cover_title
        /\ result.slides[1].subtitle =
               IF cover_subtitle = <<>> THEN DefaultSubtitle ELSE cover_subtitle

C2_Witness ==
    /\ Returned
    /\ cover_title # DefaultCoverTitle
    /\ cover_subtitle = <<>>
    /\ result.slides[1].subtitle = DefaultSubtitle
    /\ Len(result.slides) >= 3

\* C3: the returned document holds at least one ending slide, and the default ending
\* slide is appended as the last slide exactly when no header opened an ending slide.
C3_EndingPresent ==
    Returned =>
        /\ \E i \in 1..Len(result.slides) : IsEnding(result.slides[i])
        /\ ~EndingOpened <=> IsDefaultEnding(result.slides[Len(result.slides)])
        /\ ~EndingOpened =>
               \A i \in 1..(Len(result.slides) - 1) : ~IsEnding(result.slides[i])
        /\ EndingOpened =>
               \A i \in 1..Len(result.slides) : ~IsDefaultEnding(result.slides[i])

C3_Witness ==
    /\ Returned
    /\ EndingOpened
    /\ IsContent(result.slides[Len(result.slides)])

\* C4: metadata.total_slides equals the length of the returned slides list.
C4_TotalSlides ==
    Returned => result.total_slides = Len(result.slides)

C4_Witness ==
    /\ Returned
    /\ ~EndingOpened
    /\ result.total_slides >= 4

\* C5 as stated: the k-th content slide the parser opens gets the layout at index
\* k mod 6 of the six-entry catalog.
C5_AsStated ==
    \A k \in 1..Len(OpenedContent) :
        OpenedContent[k].layout = CatalogNames[((k - 1) % 6) + 1]

\* C5 amended: the k-th content slide the parser opens (k from 0) gets the layout at
\* index k mod 2 of the parser's own two-entry list (left_text_right_image,
\* right_text_left_image), so two consecutively opened content slides get distinct
\* layouts, and the counter is incremented exactly once per opened content slide.
C5_RotationOfTwo ==
    /\ \A k \in 1..Len(OpenedContent) :
           OpenedContent[k].layout =
               IF (k - 1) % 2 = 0 THEN "left_text_right_image" ELSE "right_text_left_image"
    /\ \A k \in 1..(Len(OpenedContent) - 1) :
           OpenedContent[k].layout # OpenedContent[k + 1].layout
    /\ layout_index = Len(OpenedContent)

C5_Witness ==
    /\ Len(OpenedContent) >= 3
    /\ \E i \in 1..Len(Opened) : ~IsContent(Opened[i])

-----------------------------------------------------------------------------
(* Properties of AutoPPTGeneratorV3, checked under SpecRotation (C6) and    *)
(* SpecRender (C7 to C9).                                                    *)

ByAuto(e) == e.by = "auto_select_layout"
ByParser(e) == e.by = "parse_outline_to_json"
AutoAssigned == SelectSeq(assigned, ByAuto)
ParserAssigned == SelectSeq(assigned, ByParser)

PeriodSix(seq) ==
    \A n \in 1..(Len(seq) - 6) : seq[n].layout = seq[n + 6].layout

\* C6 as stated: among the content slides whose layout is auto-assigned, by the parser's
\* rotation counter or by auto_select_layout, the N-th and the (N+6)-th get the same
\* layout, whatever other slide kinds are rendered between them.
C6_AsStated ==
    PeriodSix(ParserAssigned) /\ PeriodSix(AutoAssigned)

\* C6 amended: the N-th and the (N+6)-th content slide the parser's rotation counter
\* assigns a layout to get the same layout; a content_image slide with no 'layout' field
\* gets from auto_select_layout the catalog layout at index slide_index mod 6, where
\* slide_index counts every slide rendered before it (cover, section, chart and ending
\* included), so two such slides get the same layout when the numbers of slides
\* rendered before them differ by a multiple of 6: the N-th and the (N+6)-th do when
\* no slide of another kind is rendered between them.
C6_RotationByPosition ==
    /\ PeriodSix(ParserAssigned)
    /\ \A n \in 1..Len(AutoAssigned) :
           AutoAssigned[n].layout = CatalogNames[(AutoAssigned[n].at % 6) + 1]
    /\ \A m, n \in 1..Len(AutoAssigned) :
           (AutoAssigned[n].at - AutoAssigned[m].at) % 6 = 0
               => AutoAssigned[m].layout = AutoAssigned[n].layout

C6_Witness ==
    /\ Len(AutoAssigned) >= 7
    /\ AutoAssigned[7].at = AutoAssigned[1].at + 6
    /\ AutoAssigned[1].at = 1
    /\ AutoAssigned[7].layout = "right_text_left_image"

InCanvas(box) ==
    /\ 0 <= box[1]
    /\ 0 <= box[2]
    /\ box[1] + box[3] <= 10000
    /\ box[2] + box[4] <= 5625

\* C7: for each of the six layouts of LAYOUTS, text_area and image_area lie inside the
\* 10 x 5.625 canvas, and so do the text box and the image box of every content slide
\* drawn.
C7_LayoutsInCanvas ==
    /\ DOMAIN LAYOUTS = {CatalogNames[i] : i \in 1..Len(CatalogNames)}
    /\ Cardinality(DOMAIN LAYOUTS) = 6
    /\ \A name \in DOMAIN LAYOUTS :
           InCanvas(LAYOUTS[name].text_area) /\ InCanvas(LAYOUTS[name].image_area)
    /\ CanvasWidth = 10000 /\ CanvasHeight = 5625
    /\ (last.type = "content_image" /\ pc # "crashed") =>
           /\ InCanvas(last.text_box) /\ last.text_box # NoBox
           /\ InCanvas(last.image_box) /\ last.image_box # NoBox

C7_Witness ==
    /\ last.type = "content_image"
    /\ last.layout = "top_text_bottom_image"
    /\ last.image = "placeholder"
    /\ last.image_box = <<2500, 2800, 5000, 2200>>

\* the quote as the drawing library got it, without the lamp prefix
QuoteHanded == SubSeq(last.quote_text, Len(QuotePrefix) + 1, Len(last.quote_text))

\* C8: on a content_image slide whose quote band is drawn, a quote longer than 60
\* characters is handed over as its first 57 characters followed by '...', 60 characters
\* in all, and a quote of at most 60 characters unchanged.
C8_QuoteTruncated ==
    (last.type = "content_image" /\ last.quote_text # Absent) =>
        /\ SubSeq(last.quote_text, 1, Len(QuotePrefix)) = QuotePrefix
        /\ IF Len(last.data.quote) > 60
           THEN /\ QuoteHanded = SubSeq(last.data.quote, 1, 57) \o <<".", ".", ".">>
                /\ Len(QuoteHanded) = 60
           ELSE QuoteHanded = last.data.quote

C8_Witness ==
    /\ last.type = "content_image"
    /\ last.quote_text # Absent
    /\ Len(last.data.quote) = 61
    /\ Len(QuoteHanded) = 60

\* C9 as stated: on no rendered slide, content_image or ending, does the quote handed to
\* the renderer hold more than 60 characters.
C9_AsStated ==
    (last.type \in {"content_image", "ending"} /\ last.quote_text # Absent) =>
        Len(QuoteHanded) <= 60

-----------------------------------------------------------------------------
(* Properties of add_structured_bullets, checked under SpecFlow. *)

RECURSIVE Concat(_)
Concat(rs) == IF rs = <<>> THEN <<>> ELSE Head(rs).text \o Concat(Tail(rs))

FlowDone == pc = "flow_done"
LongColonFree == ~has_colon(bullet) /\ Len(bullet) > 35

\* C10: for a colon-free bullet longer than 35 characters, the texts of the runs
\* produced, concatenated in order, are exactly the bullet; and while the bullet is
\* being segmented, the runs so far followed by the rest still to cut are the bullet.
C10_SegmentsRebuildBullet ==
    /\ (FlowDone /\ LongColonFree) => Concat(runs) = bullet
    /\ (pc = "flow_loop") => Concat(runs) \o words = bullet

C10_Witness ==
    /\ FlowDone
    /\ LongColonFree
    /\ Len(runs) = 3
    /\ Len(runs[1].text) < 35
    /\ Len(runs[2].text) > 35

\* the text between the first and the last character that is not whitespace
Trimmed(s) ==
    LET inked == {i \in 1..Len(s) : s[i] \notin WS}
    IN  IF inked = {} THEN <<>>
        ELSE SubSeq(s, CHOOSE i \in inked : \A j \in inked : i <= j,
                       CHOOSE i \in inked : \A j \in inked : j <= i)

IsColon(c) == c = ":" \/ c = FullColon

\* where the code splits: the first full-width colon, or without one the first ASCII colon
SplitPlace(b) ==
    LET full == {i \in 1..Len(b) : b[i] = FullColon}
        any == {i \in 1..Len(b) : IsColon(b[i])}
        at == IF full # {} THEN full ELSE any
    IN  CHOOSE i \in at : \A j \in at : i <= j

\* the first colon of either kind
FirstColonPlace(b) ==
    CHOOSE i \in 1..Len(b) : IsColon(b[i]) /\ \A j \in 1..(i - 1) : ~IsColon(b[j])

TextBefore(b, place) == SubSeq(b, 1, place - 1)
TextAfter(b, place) == SubSeq(b, place + 1, Len(b))

ColonDone == FlowDone /\ has_colon(bullet)

Unindented(text) == SubSeq(text, 3, Len(text))

\* C11 as stated: when the content after the colon is longer than 25 characters, the
\* body gets exactly one paragraph of its own and that paragraph, without its two-space
\* indent, is the content character for character, its own leading and trailing
\* whitespace included.
C11_AsStated ==
    (ColonDone /\ Len(TextAfter(bullet, SplitPlace(bullet))) > 25)
        => /\ Len(runs) = 2
           /\ runs[1].para = 1
           /\ runs[2].para = 2
           /\ Unindented(runs[2].text) = TextAfter(bullet, SplitPlace(bullet))

\* C11: when the content after the colon, with the whitespace around it trimmed away, is
\* longer than 25 characters, the body gets exactly one paragraph of its own, whose text
\* is two spaces followed by the trimmed content.
C11_TrimmedBodyParagraph ==
    (ColonDone /\ Len(Trimmed(TextAfter(bullet, SplitPlace(bullet)))) > 25)
        => /\ Len(runs) = 2
           /\ runs[1].para = 1
           /\ runs[2].para = 2
           /\ runs[2].text = <<" ", " ">> \o Trimmed(TextAfter(bullet, SplitPlace(bullet)))

\* a bullet whose content of 26 characters stands between two spaces was laid out
C11_Witness ==
    /\ ColonDone
    /\ Len(TextAfter(bullet, SplitPlace(bullet))) = 28
    /\ Len(Trimmed(TextAfter(bullet, SplitPlace(bullet)))) = 26
    /\ Len(runs) = 2
    /\ runs[2].para = 2

\* C12 as stated: a bullet with a colon of either kind is split at the first colon in
\* it, whichever kind that is: the label is the text before it, the body the text after.
C12_AsStated ==
    ColonDone
        => /\ Len(runs) = 2
           /\ runs[1].text = Trimmed(TextBefore(bullet, FirstColonPlace(bullet))) \o <<FullColon>>
           /\ Trimmed(runs[2].text) = Trimmed(TextAfter(bullet, FirstColonPlace(bullet)))

\* C12: a bullet with a colon is split at its first full-width colon when it has one and
\* at its first ASCII colon otherwise: the label is the trimmed text before that place
\* followed by a full-width colon, the body the trimmed text after it.
C12_FullWidthColonFirst ==
    ColonDone
        => /\ Len(runs) = 2
           /\ runs[1].text = Trimmed(TextBefore(bullet, SplitPlace(bullet))) \o <<FullColon>>
           /\ Trimmed(runs[2].text) = Trimmed(TextAfter(bullet, SplitPlace(bullet)))

\* a bullet with an ASCII colon before a full-width one was split at the full-width one
C12_Witness ==
    /\ ColonDone
    /\ bullet = <<"X", ":", "a", FullColon, " ", "b">>
    /\ runs[1].text = <<"X", ":", "a", FullColon>>
    /\ runs[2].text = <<"b">>

\* a colon-free long bullet in or after segmentation
Segmenting == pc \in {"flow_loop", "flow_done"} /\ LongColonFree

\* what was left of the bullet when its i-th run was cut
RECURSIVE TakenBefore(_)
TakenBefore(i) == IF i <= 1 THEN 0 ELSE TakenBefore(i - 1) + Len(runs[i - 1].text)

LeftAt(i) == SubSeq(bullet, TakenBefore(i) + 1, Len(bullet))

\* the last place among the first 40 characters of w that holds the mark c, 0 without one
LastInFirst40(w, c) ==
    LET at == {i \in 1..Len(w) : i <= 40 /\ w[i] = c}
    IN  IF at = {} THEN 0 ELSE CHOOSE i \in at : \A j \in at : j <= i

Marks == <<"U+FF0C", "U+3001", "U+FF1B", "U+3002", " ">>

\* a mark at 0-based position greater than 20 is at the 22nd character or later
Late(place) == place >= 22

\* the cut after the mark nearest to position 40, of whichever kind
NearestMarkCut(w) ==
    LET ends == {LastInFirst40(w, Marks[k]) : k \in 1..Len(Marks)}
        nearest == CHOOSE i \in ends : \A j \in ends : j <= i
    IN  IF Late(nearest) THEN nearest ELSE 35

\* the cut after the last occurrence of the first kind of mark, in the order of Marks,
\* whose last occurrence among the first 40 characters is late enough
PriorityMarkCut(w) ==
    LET late == {k \in 1..Len(Marks) : Late(LastInFirst40(w, Marks[k]))}
    IN  IF late = {} THEN 35
        ELSE LastInFirst40(w, Marks[CHOOSE k \in late : \A j \in late : k <= j])

\* C13 as stated: each segmentation step of a colon-free bullet with more than 35
\* characters left cuts right after the preferred mark nearest to position 40 among the
\* first 40 characters when that mark lies past position 20, and at 35 otherwise.
C13_AsStated ==
    Segmenting =>
        \A i \in 1..Len(runs) :
            Len(LeftAt(i)) > 35 => Len(runs[i].text) = NearestMarkCut(LeftAt(i))

\* C13: each segmentation step of a colon-free bullet with more than 35 characters left
\* takes the kinds of mark in their fixed order (comma, enumeration comma, semicolon,
\* period, space) and cuts right after the last occurrence, among the first 40
\* characters, of the first kind whose last occurrence lies past position 20; with no
\* such kind it cuts at 35.
C13_CutByPriority ==
    Segmenting =>
        \A i \in 1..Len(runs) :
            Len(LeftAt(i)) > 35 => Len(runs[i].text) = PriorityMarkCut(LeftAt(i))

\* a bullet with a comma as its 22nd and a space as its 40th character was cut after the
\* comma
C13_Witness ==
    /\ Segmenting
    /\ Len(bullet) >= 40
    /\ bullet[22] = "U+FF0C"
    /\ bullet[40] = " "
    /\ runs # <<>>
    /\ Len(runs[1].text) = 22

\* C14 as stated: every paragraph made by segmenting a colon-free bullet longer than 35
\* characters holds at most 35 characters of it.
C14_AsStated ==
    Segmenting => \A i \in 1..Len(runs) : Len(runs[i].text) <= 35

\* C14: every paragraph made by segmenting a colon-free bullet longer than 35
\* characters is one run and holds at most 40 characters of it.
C14_AtMostForty ==
    Segmenting => \A i \in 1..Len(runs) : Len(runs[i].text) <= 40 /\ runs[i].para = i

\* a paragraph of 40 characters was made, ending in the mark at the 40th place
C14_Witness ==
    /\ Segmenting
    /\ \E i \in 1..Len(runs) :
           /\ Len(runs[i].text) = 40
           /\ runs[i].text[40] \in {"U+FF0C", "U+3002", " "}

-----------------------------------------------------------------------------
(* Properties of parse_outline_to_json, line by line. *)

OnCover == current_slide.type = "_cover_placeholder"
OnBody == IsContent(current_slide) \/ IsEnding(current_slide)

TxtS == <<"S">>

\* C15 as stated: with the cover placeholder active, a '副标题：S' bullet sets the cover
\* subtitle to S and leaves the cover title alone, a '标题：T' bullet sets the cover
\* title to T and leaves the cover subtitle alone, and neither is added to a slide.
C15_AsStated ==
    [][/\ (OnCover /\ ReadBulletLine(LSubtitleBullet))
            => /\ cover_subtitle' = TxtS
               /\ cover_title' = cover_title
               /\ slides' = slides
               /\ current_slide' = current_slide
       /\ (OnCover /\ ReadBulletLine(LTitleBullet))
            => /\ cover_title' = TxtT
               /\ cover_subtitle' = cover_subtitle
               /\ slides' = slides
               /\ current_slide' = current_slide]_vars

\* the '## ' headers of the catalogue whose text holds one of 总结, 结语, 结尾
EndingHeaders == {LSummary, LEpilogue, LPageTail}

\* C16 as stated: a '## ' header whose text holds 总结, 结语 or 结尾 opens a slide of type
\* ending, so that a document returned right after it ends in that slide and not in
\* the default ending.
C16_AsStated ==
    [][\A l \in EndingHeaders :
           ReadH2Line(l)
               => /\ IsEnding(current_slide')
                  /\ ~IsDefaultEnding(
                         assemble(slides', current_slide', cover_title', cover_subtitle')
                             .slides[Len(slides') + 2])]_vars

IsBody(sl) == IsContent(sl) \/ IsEnding(sl)

\* the content and ending slides opened so far, in the order of their headers
OpenedBody == SelectSeq(Opened, IsBody)

NoPlaceholder(doc) ==
    \A i \in 1..Len(doc.slides) : doc.slides[i].type # "_cover_placeholder"

\* the returned slides after the cover, without the default ending when it was appended
ReturnedBody ==
    LET after_cover == Tail(result.slides)
    IN  IF \E i \in 1..Len(OpenedBody) : IsEnding(OpenedBody[i])
        THEN after_cover
        ELSE SubSeq(after_cover, 1, Len(after_cover) - 1)

\* C17: no returned slide is a cover placeholder, and the content and ending slides that
\* the '##' and '###' headers opened are returned once each, in the order of their
\* headers: a header adds the slide it opens behind those opened before it, no other
\* line adds or removes one, and the returned slides after the cover are those opened.
C17_OpenedSlidesReturned ==
    /\ [](Returned => (NoPlaceholder(result) /\ ReturnedBody = OpenedBody))
    /\ [][pc = "parsing" =>
             /\ \A l \in BodyLines :
                    (ReadH2Line(l) \/ ReadH3Line(l)) =>
                        OpenedBody' = IF IsBody(current_slide')
                                      THEN Append(OpenedBody, current_slide')
                                      ELSE OpenedBody
             /\ (\A l \in BodyLines : ~(ReadH2Line(l) \/ ReadH3Line(l))) =>
                    /\ Len(OpenedBody') = Len(OpenedBody)
                    /\ \A i \in 1..(Len(OpenedBody) - 1) : OpenedBody'[i] = OpenedBody[i]]_vars

\* a document was returned for an outline with a cover marker and three opened slides
C17_Witness ==
    /\ Returned
    /\ \E i \in 1..Len(slides) : slides[i].type = "_cover_placeholder"
    /\ Len(OpenedBody) = 3
    /\ Len(result.slides) >= 4

\* the quote lines of the catalogue, and the text each leaves after cleaning
QuoteLines == {LQuote, LEmptyQuote}
QuoteText(l) == IF l = LQuote THEN TxtAQuote ELSE <<>>

\* C18: a quote line read while a content_image or ending slide is active sets that
\* slide's quote to the cleaned text, whatever quote the slide had, and changes nothing
\* else; read with no slide or the cover placeholder active it changes no slide, nor
\* the cover title, nor the cover subtitle.
C18_QuoteLastWins ==
    [][\A l \in QuoteLines :
           ReadQuoteLine(l)
               => /\ slides' = slides
                  /\ cover_title' = cover_title
                  /\ cover_subtitle' = cover_subtitle
                  /\ current_slide' = IF OnBody
                                      THEN [current_slide EXCEPT !.quote = QuoteText(l)]
                                      ELSE current_slide]_vars

\* an ending slide opened by a header, whose quote was empty, has taken a quote line's
\* text
C18_Witness ==
    /\ pc = "parsing"
    /\ IsEnding(current_slide)
    /\ current_slide.quote = TxtAQuote

\* C19 as stated: in a returned document every content_image or ending slide that has a
\* quote has one that is not empty after trimming.
C19_AsStated ==
    Returned =>
        \A i \in 1..Len(result.slides) :
            (IsBody(result.slides[i]) /\ result.slides[i].quote # Absent)
                => Trimmed(result.slides[i].quote) # <<>>

TxtPlain == <<"p", "l", "a", "i", "n">>
TxtO == <<"o">>

\* the step that reads a line which is no header, bullet, quote, blank or separator
ReadPlainLine(l) == ReadEmphasisLine(l) \/ ReadTextLine(l)

AppendsBullet(text) ==
    /\ current_slide' = [current_slide EXCEPT !.bullets = Append(@, text)]
    /\ slides' = slides

Dropped ==
    /\ current_slide' = current_slide
    /\ slides' = slides

\* C20 as stated: a plain-text line read while a content_image or ending slide is active
\* is appended to its bullets, unless it begins with an emphasis marker and holds no
\* colon, and then it is dropped; '**L**: t', which holds a colon, is appended.
C20_AsStated ==
    [][OnBody =>
          /\ ReadPlainLine(LPlain) => AppendsBullet(TxtPlain)
          /\ ReadPlainLine(LEmphasisOnly) => Dropped
          /\ ReadPlainLine(LEmphasisOpen) => Dropped
          /\ ReadPlainLine(LEmphasisColon)
                => /\ Len(current_slide'.bullets) = Len(current_slide.bullets) + 1
                   /\ slides' = slides]_vars

\* C20: a plain-text line read while a content_image or ending slide is active is
\* appended, cleaned, to its bullets, unless it begins with the emphasis marker and
\* holds a second one after it, and then it is dropped, with or without a colon:
\* '**N**' and '**L**: t' are dropped, '**o' is appended as 'o'.
C20_EmphasisLinesDropped ==
    [][OnBody =>
          /\ ReadPlainLine(LPlain) => AppendsBullet(TxtPlain)
          /\ ReadPlainLine(LEmphasisOpen) => AppendsBullet(TxtO)
          /\ ReadPlainLine(LEmphasisOnly) => Dropped
          /\ ReadPlainLine(LEmphasisColon) => Dropped]_vars

\* a content slide holds the bullets of the two plain-text lines that are kept
C20_Witness ==
    /\ pc = "parsing"
    /\ IsContent(current_slide)
    /\ current_slide.bullets = <<TxtO, TxtPlain>>

-----------------------------------------------------------------------------
(* Failures. *)

Raised == pc = "raised"

\* C21: parse_outline_to_json never raises: whatever lines were read, in whatever order,
\* the loop has not raised, the code after the loop can run, and what it returns is a
\* document with its slides.
C21_ParserNeverRaises ==
    /\ ~Raised
    /\ pc = "parsing" => ENABLED Finish
    /\ Returned => (result # NoResult /\ result.slides # <<>>)

\* a document was returned for an outline of as many lines as the bound allows, with a
\* cover marker among its headers and a bullet read under a cover marker
C21_Witness ==
    /\ Returned
    /\ nread = MaxLines
    /\ \E i \in 1..Len(slides) : slides[i].type = "_cover_placeholder"
    /\ cover_title = TxtT

\* C22 as stated: an entry whose type is none of the five is not rendered and every other
\* entry is: the slides rendered are as many as the entries of a recognized type. Under
\* SpecClone this is TemplateBasedGenerator in clone mode, under SpecRender
\* AutoPPTGeneratorV3.generate_from_json.
C22_AsStated ==
    pc \in {"cloning", "clone_saved", "rendering", "saved"} => nslides = recognized

InCatalog(name) == \E i \in 1..Len(CatalogNames) : CatalogNames[i] = name

\* the slide handled last is a content slide whose 'layout' names no layout of the catalog
BadLayoutGiven ==
    /\ last.type = "content_image"
    /\ last.data.layout # NoLayout
    /\ ~InCatalog(last.data.layout)

\* C23 as stated: generation never fails over a content slide whose 'layout' is null or
\* names no layout of the catalog: the slide gets text and image regions inside the
\* canvas, and the slides after it are rendered.
C23_AsStated ==
    /\ pc # "crashed"
    /\ BadLayoutGiven
           => /\ last.text_box # NoBox /\ InCanvas(last.text_box)
              /\ last.image_box # NoBox /\ InCanvas(last.image_box)

\* C24 as stated: an empty outline is a hard failure with no partial output: the call
\* returns no document and no slides.  (text.strip().split('\n') of an empty or
\* whitespace-only text is one empty line, which the loop skips: no line is read.)
C24_AsStated ==
    (Returned /\ nread = 0) => (result = NoResult /\ result.slides = <<>>)

-----------------------------------------------------------------------------
(* Images and the quote band of content slides, checked under SpecRender. *)

\* the ways an image is unavailable: no 'image' key, no candidate path exists,
\* add_picture raises
Unavailable == {"no_field", "not_found", "insert_failed"}

\* the step draws a content slide, of either kind of document, with this outcome
DrawsContent(outcome) ==
    /\ pc = "rendering"
    /\ last'.type = "content_image"
    /\ \/ /\ last'.data \in JsonContents(RichQuotes)
          /\ draw_content(last'.data, outcome, MaxSlides)
       \/ /\ last'.data \in ParsedContents(RichQuotes)
          /\ draw_parsed_content(last'.data, outcome, MaxSlides)

\* C26: a step of create_content_with_image_slide whose image is unavailable (no
\* 'image' field, no candidate path exists, or the insertion fails) draws a placeholder
\* on exactly the image_area of the slide's layout, adds the slide, and leaves the
\* generator in its loop, ready for the next entry.
C26_PlaceholderInImageArea ==
    [][\A outcome \in Unavailable :
          DrawsContent(outcome) =>
              /\ last'.image = "placeholder"
              /\ last'.image_box = LAYOUTS[last'.layout].image_area
              /\ nslides' = nslides + 1
              /\ slide_index' = slide_index + 1
              /\ pc' = "rendering"]_vars

\* a placeholder was drawn on the second slide, and a third slide followed it
C26_Witness ==
    /\ pc = "saved"
    /\ nslides = 3
    /\ last.type = "content_image"
    /\ last.image = "placeholder"
    /\ last.layout = "emphasis_text"
    /\ last.image_box = <<6800, 1500, 2800, 3000>>

\* two rectangles share no point of positive area
Apart(a, b) ==
    \/ a[1] + a[3] <= b[1]
    \/ b[1] + b[3] <= a[1]
    \/ a[2] + a[4] <= b[2]
    \/ b[2] + b[4] <= a[2]

BandDrawn == last.quote_box # NoBox

\* C30: on a content_image slide the quote band is drawn exactly when the quote is
\* non-empty and the layout is not large_image_small_text; when drawn it is the
\* rectangle (0.3, 5.15, 9.4, 0.4), inside the canvas and apart from the text box and
\* the image box of the slide; and the band is apart from text_area and image_area of
\* every layout of the catalog other than large_image_small_text.
C30_QuoteBandApart ==
    /\ (last.type = "content_image" /\ pc # "crashed") =>
           /\ BandDrawn <=> (/\ last.data.quote # Absent
                             /\ Len(last.data.quote) > 0
                             /\ last.layout # "large_image_small_text")
           /\ BandDrawn =>
                  /\ last.quote_box = <<300, 5150, 9400, 400>>
                  /\ InCanvas(last.quote_box)
                  /\ Apart(last.quote_box, last.text_box)
                  /\ Apart(last.quote_box, last.image_box)
    /\ \A name \in DOMAIN LAYOUTS \ {"large_image_small_text"} :
           /\ Apart(<<300, 5150, 9400, 400>>, LAYOUTS[name].text_area)
           /\ Apart(<<300, 5150, 9400, 400>>, LAYOUTS[name].image_area)

C30_Witness ==
    /\ last.type = "content_image"
    /\ BandDrawn
    /\ last.layout = "top_text_bottom_image"
    /\ last.image_box[2] + last.image_box[4] = 5000

-----------------------------------------------------------------------------
(* generate_single_image_siliconflow: one generation request per turn of the   *)
(* loop `for attempt in range(max_retries)`.                                    *)

\* the largest max_retries tried (the default of the function is 3)
MaxRetries == 3

\* how one turn of the loop can come out: status 200 with an image given by url or
\* as base64, status 200 with an image url whose download times out, status 200
\* without a usable image, status 429, another status, a timeout of the request,
\* any other exception
ServerOutcomes ==
    {"200_url", "200_b64", "200_url_timeout", "200_no_image", "429", "other_status",
     "timeout", "exception"}

\* the messages returned
MsgSuccess == "AI generation succeeded"
MsgUnsupported == "response format not supported"
MsgRateLimited == "rate limited, retry failed"
MsgStatus == "API returned an error status"
MsgTimeout == "generation timed out"
MsgException == "exception"
MsgExhausted == "retries used up"

\* may_retry testing the attempts made, not the attempts left
may_retry_on_last_attempt(a, m) == a < m

\* attempt < max_retries - 1
may_retry(a, m) == a < m - 1

Retrying(at) ==
    /\ pc = at
    /\ UNCHANGED <<max_retries, parserVars, layout_index, renderVars, flowVars,
                   downloadVars, mainVars>>

return_pair(success, message) ==
    /\ retval' = <<success, message>>
    /\ pc' = "retry_returned"
    /\ UNCHANGED <<attempt, response, posts, slept>>

\* time.sleep(seconds); continue
sleep_and_continue(seconds) ==
    /\ slept' = Append(slept, seconds)
    /\ attempt' = attempt + 1
    /\ response' = "none"
    /\ pc' = "retry_loop"
    /\ UNCHANGED <<posts, retval>>

\* requests.post(url, headers=headers, json=data, timeout=120)
post_request ==
    /\ Retrying("retry_loop")
    /\ attempt < max_retries
    /\ \E outcome \in ServerOutcomes : response' = outcome
    /\ posts' = posts + 1
    /\ pc' = "retry_response"
    /\ UNCHANGED <<attempt, slept, retval>>

\* status 200 and an image written to the file
on_image ==
    /\ Retrying("retry_response")
    /\ response \in {"200_url", "200_b64"}
    /\ return_pair(TRUE, MsgSuccess)

\* status 200 without 'images', or an image with neither 'url' nor 'b64_json'
on_no_image ==
    /\ Retrying("retry_response")
    /\ response = "200_no_image"
    /\ return_pair(FALSE, MsgUnsupported)

on_429 ==
    /\ Retrying("retry_response")
    /\ response = "429"
    /\ IF may_retry(attempt, max_retries)
       THEN sleep_and_continue(5 * (attempt + 1))
       ELSE return_pair(FALSE, MsgRateLimited)

on_other_status ==
    /\ Retrying("retry_response")
    /\ response = "other_status"
    /\ return_pair(FALSE, MsgStatus)

\* except requests.exceptions.Timeout, raised by requests.post or by the download of
\* the image url
on_timeout ==
    /\ Retrying("retry_response")
    /\ response \in {"timeout", "200_url_timeout"}
    /\ IF may_retry(attempt, max_retries)
       THEN sleep_and_continue(3)
       ELSE return_pair(FALSE, MsgTimeout)

\* except Exception
on_exception ==
    /\ Retrying("retry_response")
    /\ response = "exception"
    /\ return_pair(FALSE, MsgException)

\* the loop ends without a return
retries_exhausted ==
    /\ Retrying("retry_loop")
    /\ attempt >= max_retries
    /\ return_pair(FALSE, MsgExhausted)

InitRetry ==
    /\ pc = "retry_loop"
    /\ ParserIdle
    /\ RenderIdle
    /\ FlowIdle
    /\ DownloadIdle
    /\ MainIdle
    /\ max_retries \in 0..MaxRetries
    /\ attempt = 0
    /\ response = "none"
    /\ posts = 0
    /\ slept = <<>>
    /\ retval = NoReturn

generate_single_image_siliconflow ==
    \/ post_request
    \/ on_image
    \/ on_no_image
    \/ on_429
    \/ on_other_status
    \/ on_timeout
    \/ on_exception
    \/ retries_exhausted

\* every request carries a timeout and every sleep is finite: a step that can be
\* taken is taken
SpecRetry ==
    InitRetry /\ [][generate_single_image_siliconflow]_vars
              /\ WF_vars(generate_single_image_siliconflow)

-----------------------------------------------------------------------------
(* Properties of generate_single_image_siliconflow, checked under SpecRetry. *)

RetryReturned == pc = "retry_returned"

Retries == attempt' = attempt + 1

\* C27: the function returns, in every run, a pair (success, message) after at most
\* max_retries requests; it goes round again only after a 429 or a timeout and only
\* while attempt < max_retries - 1, having slept 5 * (attempt + 1) seconds after a 429
\* and 3 seconds after a timeout, and sleeps at no other time; it returns success only
\* after a 200 response with an image; with max_retries = 0 it returns failure with no
\* request sent.
C27_BoundedRetries ==
    /\ [](/\ posts <= max_retries
          /\ posts <= attempt + 1
          /\ RetryReturned =>
                /\ retval[1] \in BOOLEAN
                /\ retval # NoReturn
                /\ retval[1] => response \in {"200_url", "200_b64"}
                /\ max_retries = 0 => (posts = 0 /\ ~retval[1]))
    /\ [][/\ Retries =>
                /\ response \in {"429", "timeout", "200_url_timeout"}
                /\ attempt < max_retries - 1
                /\ slept' = Append(slept, IF response = "429" THEN 5 * (attempt + 1)
                                         ELSE 3)
          /\ slept' # slept => Retries]_vars
    /\ <>RetryReturned

\* a 429, a timeout and a 429 again: two waits, then failure on the third request
C27_Witness ==
    /\ RetryReturned
    /\ max_retries = 3
    /\ posts = 3
    /\ slept = <<5, 3>>
    /\ response = "429"
    /\ retval = <<FALSE, MsgRateLimited>>

-----------------------------------------------------------------------------
(* download_images_from_json.  A file path is a record: whether it is absolute, *)
(* its name without the number, and the number in its name.                     *)

\* the longest list of tasks downloaded
MaxTasks == 3

\* os.path.abspath: the path under the current directory
abspath(path) == [path EXCEPT !.abs = TRUE]

isabs(path) == path.abs

TxtPrompt == <<"p">>
TxtDesc == <<"d">>

\* the k-th task of a list: its prompt given or empty, its file its own
TaskAt(k, prompt) ==
    [prompt |-> prompt, path |-> [abs |-> TRUE, stem |-> "image", n |-> k],
     desc |-> TxtDesc, title |-> TxtT]

TaskLists ==
    UNION {{[k \in 1..n |-> TaskAt(k, prompts[k])] : prompts \in [1..n -> {<<>>, TxtPrompt}]} :
              n \in 0..MaxTasks}

\* tries_ai without the test of the prompt
tries_ai_without_prompt(key, prompt) == key

\* siliconflow_key and prompt
tries_ai(key, prompt) == key /\ prompt # <<>>

\* the loop of download_images_from_json at one of its three tests of a turn:
\* "downloading" before `if siliconflow_key and prompt`, "try_unsplash" before
\* `if unsplash_key`, "sources_failed" after both
InLoop(at) ==
    /\ pc = at
    /\ ntask < Len(image_tasks)
    /\ UNCHANGED <<image_tasks, siliconflow_key, unsplash_key, success_paths,
                   parserVars, layout_index, renderVars, flowVars, retryVars, mainVars>>

Detail(task, source, status) == [file |-> task.path, source |-> source, status |-> status]

\* stats['details'].append(...) and, for a success, continue
Resolved(counter, source, status) ==
    /\ stats' = [stats EXCEPT ![counter] = @ + 1,
                              !.details = Append(@, Detail(image_tasks[ntask + 1],
                                                           source, status))]
    /\ ntask' = ntask + 1
    /\ pc' = "downloading"

Unresolved(next) ==
    /\ pc' = next
    /\ UNCHANGED <<ntask, stats>>

\* generate_single_image_siliconflow returned success
ai_succeeds ==
    /\ InLoop("downloading")
    /\ tries_ai(siliconflow_key, image_tasks[ntask + 1].prompt)
    /\ Resolved("ai_success", "SiliconFlow AI", "success")

\* generate_single_image_siliconflow returned failure
ai_fails ==
    /\ InLoop("downloading")
    /\ tries_ai(siliconflow_key, image_tasks[ntask + 1].prompt)
    /\ Unresolved("try_unsplash")

\* no AI key, or no prompt
ai_skipped ==
    /\ InLoop("downloading")
    /\ ~tries_ai(siliconflow_key, image_tasks[ntask + 1].prompt)
    /\ Unresolved("try_unsplash")

\* download_single_image_unsplash returned success
unsplash_succeeds ==
    /\ InLoop("try_unsplash")
    /\ unsplash_key
    /\ Resolved("unsplash_success", "Unsplash", "success")

unsplash_fails ==
    /\ InLoop("try_unsplash")
    /\ unsplash_key
    /\ Unresolved("sources_failed")

unsplash_skipped ==
    /\ InLoop("try_unsplash")
    /\ ~unsplash_key
    /\ Unresolved("sources_failed")

task_failed ==
    /\ InLoop("sources_failed")
    /\ Resolved("failed", "None", "failed")

IsSuccess(item) == item.status = "success"

file_of(items) == [k \in DOMAIN items |-> items[k].file]

\* return True for an empty list of tasks, the files of the successes otherwise
download_return ==
    /\ pc = "downloading"
    /\ ntask = Len(image_tasks)
    /\ pc' = "downloaded"
    /\ success_paths' = IF image_tasks = <<>>
                        THEN [py |-> "bool", items |-> <<>>]
                        ELSE [py |-> "list",
                              items |-> file_of(SelectSeq(stats.details, IsSuccess))]
    /\ UNCHANGED <<image_tasks, siliconflow_key, unsplash_key, ntask, stats,
                   parserVars, layout_index, renderVars, flowVars, retryVars, mainVars>>

NoPaths == [py |-> "NoneType", items |-> <<>>]

InitDownload ==
    /\ pc = "downloading"
    /\ ParserIdle
    /\ RenderIdle
    /\ FlowIdle
    /\ RetryIdle
    /\ MainIdle
    /\ image_tasks \in TaskLists
    /\ siliconflow_key \in BOOLEAN
    /\ unsplash_key \in BOOLEAN
    /\ ntask = 0
    /\ stats = NoStats
    /\ success_paths = NoPaths

download_images_from_json ==
    \/ ai_succeeds
    \/ ai_fails
    \/ ai_skipped
    \/ unsplash_succeeds
    \/ unsplash_fails
    \/ unsplash_skipped
    \/ task_failed
    \/ download_return

SpecDownload == InitDownload /\ [][download_images_from_json]_vars

-----------------------------------------------------------------------------
(* Properties of download_images_from_json, checked under SpecDownload. *)

Downloaded == pc = "downloaded"

Successes == SelectSeq(stats.details, IsSuccess)

InDownload == pc \in {"downloading", "try_unsplash", "sources_failed", "downloaded"}

Records(counter) == stats'[counter] = stats[counter] + 1

\* C28: every task gets one entry of details, in task order; an entry of the AI source
\* is made only with an AI key and a prompt, one of Unsplash only with an Unsplash key
\* and after the AI source did not resolve the task, a failed one only after neither
\* did; the three counters add up to the tasks processed; the loop goes on to the last
\* task whatever failed; for one task or more the value returned is the list of the
\* files of the entries marked success.
C28_EachTaskResolvedOnce ==
    /\ [](InDownload =>
            /\ Len(stats.details) = ntask
            /\ stats.ai_success + stats.unsplash_success + stats.failed = ntask
            /\ Len(Successes) = stats.ai_success + stats.unsplash_success
            /\ \A k \in 1..ntask :
                  LET item == stats.details[k]
                  IN  /\ item.file = image_tasks[k].path
                      /\ item.source = "SiliconFlow AI" =>
                            (siliconflow_key /\ image_tasks[k].prompt # <<>>)
                      /\ item.source = "Unsplash" => unsplash_key
                      /\ item.status = "failed" <=> item.source = "None")
    /\ [](Downloaded =>
            /\ ntask = Len(image_tasks)
            /\ Len(image_tasks) >= 1 =>
                  /\ success_paths.py = "list"
                  /\ success_paths.items = file_of(Successes)
                  /\ \A k \in 1..ntask :
                        stats.details[k].status = "success" <=>
                            \E j \in 1..Len(success_paths.items) :
                                success_paths.items[j] = image_tasks[k].path)
    /\ [][/\ Records("ai_success") => pc = "downloading"
          /\ Records("unsplash_success") => pc = "try_unsplash"
          /\ Records("failed") => pc = "sources_failed"
          /\ pc' = "try_unsplash" => (pc = "downloading" /\ stats' = stats)
          /\ pc' = "sources_failed" => (pc = "try_unsplash" /\ stats' = stats)
          /\ ntask' # ntask =>
                (ntask' = ntask + 1 /\ Len(stats'.details) = Len(stats.details) + 1)]_vars

\* the second of three tasks failed; the first and the third were resolved
C28_Witness ==
    /\ Downloaded
    /\ Len(image_tasks) = 3
    /\ stats.details[1].source = "SiliconFlow AI"
    /\ stats.details[2].status = "failed"
    /\ stats.details[3].source = "Unsplash"
    /\ Len(success_paths.items) = 2

-----------------------------------------------------------------------------
(* main, from the text entered to the call of the generator.  A JSON value is a *)
(* record: its Python type, whether it has the key 'slides', and its slides; a  *)
(* slide of a document is a record of the keys the image steps read.  A text is *)
(* a record of what json.loads makes of it.                                     *)

\* the longest document entered as JSON
MaxDocSlides == 2

\* a slide without the key 'image'
NoPath == [abs |-> FALSE, stem |-> "<absent>", n |-> 0]

DictSlide(type, title, image, image_prompt, image_desc) ==
    [type |-> type, title |-> title, image |-> image, image_prompt |-> image_prompt,
     image_desc |-> image_desc]

\* the content_image slides entered: no image keys at all; a relative image, a prompt
\* and a description; an absolute image and an empty description; a prompt and an
\* empty description
JsonSlides ==
    {DictSlide("content_image", <<"a">>, NoPath, Absent, Absent),
     DictSlide("content_image", <<"b">>, [abs |-> FALSE, stem |-> "pic", n |-> 1],
               TxtPrompt, TxtDesc),
     DictSlide("content_image", <<"c">>, [abs |-> TRUE, stem |-> "pic", n |-> 2],
               Absent, <<>>),
     DictSlide("content_image", <<"d">>, NoPath, TxtPrompt, <<>>),
     DictSlide("cover", TxtT, NoPath, Absent, Absent),
     DictSlide("ending", TxtT, NoPath, Absent, Absent)}

Dict(ss) == [py |-> "dict", has_slides |-> TRUE, slides |-> ss]

JsonDocuments ==
    UNION {{Dict(ss) : ss \in [1..n -> JsonSlides]} : n \in 0..MaxDocSlides}

\* 42, [] and {"a": 1}
JNumber == [py |-> "int", has_slides |-> FALSE, slides |-> <<>>]
JList == [py |-> "list", has_slides |-> FALSE, slides |-> <<>>]
JOtherDict == [py |-> "dict", has_slides |-> FALSE, slides |-> <<>>]

JsonValues == JsonDocuments \cup {JNumber, JList, JOtherDict}

\* the texts entered: nothing but white space, the text of a JSON value, an outline
Texts ==
    {[kind |-> "blank", value |-> NoJson], [kind |-> "outline", value |-> NoJson]}
        \cup {[kind |-> "json", value |-> v] : v \in JsonValues}

\* a dict made by parse_outline_to_json, as a slide of a document
as_dict(sl) ==
    DictSlide(sl.type, sl.title,
              IF sl.image = 0 THEN NoPath
              ELSE [abs |-> FALSE, stem |-> "images/slide", n |-> sl.image],
              Absent, sl.image_desc)

as_json(doc) == Dict([k \in DOMAIN doc.slides |-> as_dict(doc.slides[k])])

\* documents parse_outline_to_json returns: for an outline without headers, with one
\* third-level header, with two
ParsedDocuments ==
    {as_json(assemble(<<>>, NoSlide, DefaultCoverTitle, <<>>)),
     as_json(assemble(<<>>, ContentSlide(TxtT, 0), DefaultCoverTitle, <<>>)),
     as_json(assemble(<<ContentSlide(TxtT, 0)>>, ContentSlide(TxtTopic, 1),
                      DefaultCoverTitle, <<>>))}

\* slide.get('image_desc', '...') of a slide without the key
DefaultDesc == <<"U+56FE", "U+7247">>

\* the prompt built from the template: never empty
generate_smart_prompt(title) == <<"Professional technical illustration showing">> \o title

\* wants_task looking at the description alone
wants_task_by_desc(desc, prompt) == desc # <<>>

\* if desc or prompt
wants_task(desc, prompt) == desc # <<>> \/ prompt # <<>>

task_of(slide, tasks) ==
    LET given == IF slide.image_prompt = Absent THEN <<>> ELSE slide.image_prompt
        desc == IF slide.image_desc = Absent THEN DefaultDesc ELSE slide.image_desc
        prompt == IF given = <<>> THEN generate_smart_prompt(slide.title) ELSE given
        image_path == IF slide.image = NoPath
                      THEN [abs |-> FALSE, stem |-> "image", n |-> Len(tasks) + 1]
                      ELSE slide.image
    IN  [wanted |-> wants_task(desc, prompt),
         task |-> [prompt |-> prompt,
                   path |-> IF isabs(image_path) THEN image_path ELSE abspath(image_path),
                   desc |-> desc, title |-> slide.title]]

RECURSIVE extract_from(_, _)
extract_from(ss, tasks) ==
    IF ss = <<>> THEN tasks
    ELSE IF Head(ss).type = "content_image" /\ task_of(Head(ss), tasks).wanted
         THEN extract_from(Tail(ss), Append(tasks, task_of(Head(ss), tasks).task))
         ELSE extract_from(Tail(ss), tasks)

\* the path-sync loop, k being its slide_index
RECURSIVE sync_from(_, _, _)
sync_from(ss, tasks, k) ==
    IF ss = <<>> THEN <<>>
    ELSE IF Head(ss).type = "content_image" /\ k < Len(tasks)
         THEN <<[Head(ss) EXCEPT !.image = tasks[k + 1].path]>>
                  \o sync_from(Tail(ss), tasks, k + 1)
         ELSE <<Head(ss)>> \o sync_from(Tail(ss), tasks, k)

InMain(at) ==
    /\ pc = at
    /\ UNCHANGED <<text_content, parserVars, layout_index, renderVars, flowVars,
                   retryVars>>

\* if not text_content: return
reject_empty ==
    /\ InMain("main_input")
    /\ text_content.kind = "blank"
    /\ pc' = "main_returned"
    /\ UNCHANGED <<json_data, parser_calls, downloadVars>>

\* json_data = json.loads(text_content)
loads_json ==
    /\ InMain("main_input")
    /\ text_content.kind = "json"
    /\ json_data' = text_content.value
    /\ pc' = "extract"
    /\ UNCHANGED <<parser_calls, downloadVars>>

\* except json.JSONDecodeError: json_data = parse_outline_to_json(text_content); the
\* document returned is never empty, so the `else: return` is not taken
parse_outline ==
    /\ InMain("main_input")
    /\ text_content.kind = "outline"
    /\ parser_calls' = parser_calls + 1
    /\ json_data' \in ParsedDocuments
    /\ pc' = "extract"
    /\ UNCHANGED downloadVars

\* image_tasks = extract_image_prompts_from_json(json_data): json_data.get raises
\* AttributeError on a value that is not a dict
extract_image_prompts_from_json ==
    /\ InMain("extract")
    /\ IF json_data.py # "dict"
       THEN /\ pc' = "crashed"
            /\ UNCHANGED image_tasks
       ELSE /\ image_tasks' = extract_from(json_data.slides, <<>>)
            /\ pc' = IF image_tasks' = <<>> THEN "generate" ELSE "ask_download"
    /\ UNCHANGED <<json_data, parser_calls, siliconflow_key, unsplash_key, ntask, stats,
                   success_paths>>

\* download_choice 1, 2 or 3: the AI key for 1 and 2, an Unsplash key, if one is
\* entered, for 2 and 3
start_download ==
    \E download_choice \in {"1", "2", "3"} :
        /\ InMain("ask_download")
        /\ siliconflow_key' = (download_choice \in {"1", "2"})
        /\ unsplash_key' \in IF download_choice \in {"2", "3"} THEN BOOLEAN ELSE {FALSE}
        /\ ntask' = 0
        /\ stats' = NoStats
        /\ pc' = "downloading"
        /\ UNCHANGED <<json_data, parser_calls, image_tasks, success_paths>>

\* any other download_choice
skip_download ==
    /\ InMain("ask_download")
    /\ pc' = "generate"
    /\ UNCHANGED <<json_data, parser_calls, downloadVars>>

\* the loop that writes the paths of the tasks into the slides
sync_paths ==
    /\ InMain("downloaded")
    /\ json_data' = [json_data EXCEPT !.slides = sync_from(@, image_tasks, 0)]
    /\ pc' = "generate"
    /\ UNCHANGED <<parser_calls, downloadVars>>

\* generator.generate_from_json(json_data, output_path)
generate ==
    /\ InMain("generate")
    /\ pc' = "main_done"
    /\ UNCHANGED <<json_data, parser_calls, downloadVars>>

InitMain ==
    /\ pc = "main_input"
    /\ ParserIdle
    /\ RenderIdle
    /\ FlowIdle
    /\ RetryIdle
    /\ DownloadIdle
    /\ text_content \in Texts
    /\ json_data = NoJson
    /\ parser_calls = 0

main ==
    \/ reject_empty
    \/ loads_json
    \/ parse_outline
    \/ extract_image_prompts_from_json
    \/ start_download
    \/ skip_download
    \/ download_images_from_json
    \/ sync_paths
    \/ generate

SpecMain == InitMain /\ [][main]_vars

-----------------------------------------------------------------------------
(* Properties of main, checked under SpecMain. *)

\* a dict with the key 'slides'
IsDocument(v) == v.py = "dict" /\ v.has_slides

\* past the choice of the input: the image steps and the generation
LaterSteps ==
    {"extract", "ask_download", "downloading", "try_unsplash", "sources_failed",
     "downloaded", "generate", "main_done"}

\* the document has not been through the path-sync loop
Unsynced == pc \in LaterSteps \ {"generate", "main_done"}

\* C25 as stated: a text that is the JSON of a document never has the parser invoked
\* and is the document of the later steps; any other text has the parser invoked
\* exactly once; a text that is JSON of another shape is not handed to the later steps.
C25_AsStated ==
    /\ (text_content.kind = "json" /\ IsDocument(text_content.value)) =>
          /\ parser_calls = 0
          /\ Unsynced => json_data = text_content.value
    /\ (pc \in LaterSteps /\ ~(text_content.kind = "json" /\ IsDocument(text_content.value)))
          => parser_calls = 1
    /\ (text_content.kind = "json" /\ ~IsDocument(text_content.value)) =>
          pc \notin LaterSteps

IsContentDict(sl) == sl.type = "content_image"

Contents == SelectSeq(json_data.slides, IsContentDict)

\* how many content_image slides the first i slides hold
RECURSIVE Rank(_, _)
Rank(ss, i) ==
    IF i = 0 THEN 0
    ELSE Rank(ss, i - 1) + IF IsContentDict(ss[i]) THEN 1 ELSE 0

\* C29: after the extraction there is one task for each content_image slide, in slide
\* order, carrying the slide's title and, when the slide names an image, that file;
\* and the path-sync loop sets the 'image' of the k-th content_image slide to the path
\* of the k-th task and changes no other slide and no other field, whatever the
\* downloads gave.
C29_TasksFollowSlides ==
    /\ [](Unsynced /\ pc # "extract" =>
            /\ Len(image_tasks) = Len(Contents)
            /\ \A k \in 1..Len(Contents) :
                  /\ image_tasks[k].title = Contents[k].title
                  /\ image_tasks[k].path.abs
                  /\ Contents[k].image # NoPath =>
                        /\ image_tasks[k].path.stem = Contents[k].image.stem
                        /\ image_tasks[k].path.n = Contents[k].image.n)
    /\ [][sync_paths =>
            /\ Len(json_data'.slides) = Len(json_data.slides)
            /\ \A i \in 1..Len(json_data.slides) :
                  json_data'.slides[i] =
                      IF IsContentDict(json_data.slides[i])
                      THEN [json_data.slides[i] EXCEPT
                               !.image = image_tasks[Rank(json_data.slides, i)].path]
                      ELSE json_data.slides[i]]_vars

\* two content slides after a cover-less start; the download of the first failed, and
\* both slides carry the paths of their tasks
C29_Witness ==
    /\ pc = "main_done"
    /\ Len(json_data.slides) = 2
    /\ Len(image_tasks) = 2
    /\ Len(stats.details) = 2
    /\ text_content.kind = "json"
    /\ stats.details[1].status = "failed"
    /\ stats.details[2].status = "success"
    /\ json_data.slides[1].image = image_tasks[1].path
    /\ json_data.slides[2].image = image_tasks[2].path
    /\ json_data.slides[1].image_desc = <<>>
    /\ text_content.value.slides[1].image = NoPath

====
